---- MODULE Spec2Model ----
(***************************************************************************)
(* A model of arch-lint: the analyzer orchestration (arch-lint-core,       *)
(* analyzer.rs), the suppression utilities (utils/allowance.rs,            *)
(* utils/attributes.rs), and the syntax-tree visitors of the rules         *)
(* no-unwrap-expect, no-panic-in-lib, handler-complexity, restrict-use and *)
(* deny-scope-dep.                                                         *)
(*                                                                         *)
(* A parsed file is a pre-order sequence of events of its syntax tree:     *)
(* entering an item (mod / fn / impl / method, with its attributes),       *)
(* leaving it, and the nodes ("sites") a rule looks at.  A source text is  *)
(* a sequence of lines; a line records whether it starts with code and     *)
(* which allow directive, if any, its comment holds.                       *)
(***************************************************************************)
EXTENDS Integers, Sequences, FiniteSets, TLC

VARIABLES
    \* ---- one run of Rule::check over one file (specification SpecVisit)
    v_rule,        \* the rule object being run
    v_ctx,         \* FileContext: content, is_test, relative_path
    v_pc,          \* "idle" | "check" | "walk" | "done"
    visitor,       \* the visitor struct plus the traversal's call stack
    v_last,        \* the node visited by the last step, and what it emitted
    v_nsites,      \* nodes visited so far
    \* ---- Analyzer::analyze (specification Spec)
    config,        \* Config.rules: rule name -> RuleConfig
    fail_on_parse_error,
    rules,         \* Analyzer.rules, in registration order
    project_rules, \* Analyzer.project_rules
    disk,          \* the files under the root: path -> file
    pc,            \* "build" | "discover" | "files" | "project" | "sort" | "done" | "error"
    files,         \* the discovered paths
    idx,           \* position of the per-file loop
    result,        \* LintResult: violations, files_checked
    skipped,       \* paths whose parse failed and were skipped
    err,           \* the AnalyzerError returned, or "none"
    runs,          \* completed runs of analyze
    prev_result,   \* the Result of the previous run
    \* ---- one call of a library function (specifications SpecMatch,
    \*      SpecDecl, SpecUse, SpecLayer)
    call,          \* the function called and its arguments
    ret            \* the values returned so far, in order

vvars == <<v_rule, v_ctx, v_pc, visitor, v_last, v_nsites>>
avars == <<config, fail_on_parse_error, rules, project_rules, disk,
           pc, files, idx, result, skipped, err, runs, prev_result>>
cvars == <<call, ret>>
vars == <<vvars, avars, cvars>>

-----------------------------------------------------------------------------
(* Bounds of the model *)

MaxFiles == 2
MaxRuns == 2
MaxDepth == 2
MaxSites == 2

-----------------------------------------------------------------------------
(* types.rs *)

Severity == {"Info", "Warning", "Error"}

Location(file, line, column) == [file |-> file, line |-> line, column |-> column]

\* Violation::new; the message is kept as the sequence of its parts.
Violation(code, rule, severity, location, message) ==
    [code |-> code, rule |-> rule, severity |-> severity,
     file |-> location.file, line |-> location.line, column |-> location.column,
     message |-> message]

Contains(message, part) == \E i \in 1..Len(message) : message[i] = part

MissingReason == "is missing required reason"

IsMeta(v) == Contains(v.message, MissingReason)

-----------------------------------------------------------------------------
(* Rule identities *)

UNWRAP_NAME == "no-unwrap-expect"
UNWRAP_CODE == "AL001"
PANIC_NAME == "no-panic-in-lib"
PANIC_CODE == "AL011"
COMPLEXITY_NAME == "handler-complexity"
COMPLEXITY_CODE == "AL004"
RESTRICT_USE_NAME == "restrict-use"
RESTRICT_USE_CODE == "ALD001"
SCOPE_DEP_NAME == "deny-scope-dep"
SCOPE_DEP_CODE == "ALD003"

\* str::replace('-', "_") on the rule names the model uses.
ReplaceDash(name) ==
    CASE name = "no-unwrap-expect" -> "no_unwrap_expect"
      [] name = "no-panic-in-lib" -> "no_panic_in_lib"
      [] name = "handler-complexity" -> "handler_complexity"
      [] name = "restrict-use" -> "restrict_use"
      [] name = "deny-scope-dep" -> "deny_scope_dep"
      [] name = "no-sqlx" -> "no_sqlx"
      [] name = "other-rule" -> "other_rule"
      [] name = "tracing-env-init" -> "tracing_env_init"
      [] name = "require-thiserror" -> "require_thiserror"
      [] OTHER -> name

-----------------------------------------------------------------------------
(* utils/allowance.rs *)

Denied == [allowed |-> FALSE, reason |-> FALSE]
Allowed(reason) == [allowed |-> TRUE, reason |-> reason]

\* A source line.  code: the trimmed line starts with code, not with `//`;
\* has_dir: its comment reads `arch-lint: allow(rules) [reason="..."]`.
Line(code, has_dir, names, reason) ==
    [code |-> code, has_dir |-> has_dir, rules |-> names, reason |-> reason]

CodeLine == Line(TRUE, FALSE, {}, FALSE)
DirLine(names, reason) == Line(FALSE, TRUE, names, reason)
TrailingDirLine(names, reason) == Line(TRUE, TRUE, names, reason)

\* The directive of a line, when the line is a comment holding one.
parse_allow_directive(line) ==
    IF line.code THEN [ok |-> FALSE, rules |-> {}, reason |-> FALSE]
    ELSE IF ~line.has_dir THEN [ok |-> FALSE, rules |-> {}, reason |-> FALSE]
    ELSE IF line.rules = {} THEN [ok |-> FALSE, rules |-> {}, reason |-> FALSE]
    ELSE [ok |-> TRUE, rules |-> line.rules, reason |-> line.reason]

saturating_sub(a, b) == IF a >= b THEN a - b ELSE 0

\* The lines scanned for a directive: the one before, then the line itself.
ScannedLines(line) == <<saturating_sub(line, 1), line>>

DirectiveAt(content, check_line, rule_name) ==
    IF check_line = 0 \/ check_line > Len(content)
    THEN [ok |-> FALSE, rules |-> {}, reason |-> FALSE]
    ELSE LET d == parse_allow_directive(content[check_line])
         IN  IF d.ok /\ (rule_name \in d.rules \/ "all" \in d.rules)
             THEN d
             ELSE [ok |-> FALSE, rules |-> {}, reason |-> FALSE]

check_allow_with_reason(content, line, rule_name) ==
    LET scan == ScannedLines(line)
        d1 == DirectiveAt(content, scan[1], rule_name)
        d2 == DirectiveAt(content, scan[2], rule_name)
    IN  IF d1.ok THEN Allowed(d1.reason)
        ELSE IF d2.ok THEN Allowed(d2.reason)
        ELSE Denied

-----------------------------------------------------------------------------
(* utils/attributes.rs *)

\* An attribute: its path, the tokens of its argument list, and whether the
\* list holds `reason = "..."`.
Attr(path, args, reason) == [path |-> path, args |-> args, reason |-> reason]

\* The lint names an attribute's text contains.
has_allow_attr(attrs, lint_names) ==
    \E i \in 1..Len(attrs) :
        attrs[i].path = "allow" /\ attrs[i].args \cap lint_names # {}

has_test_attr(attrs) == \E i \in 1..Len(attrs) : attrs[i].path = "test"

\* Argument tokens of a cfg attribute whose text contains "test".
CfgTokensWithTest == {"test", "not(test)"}

has_cfg_test(attrs) ==
    \E i \in 1..Len(attrs) :
        attrs[i].path = "cfg" /\ attrs[i].args \cap CfgTokensWithTest # {}

is_arch_lint_allow_path(attr) ==
    attr.path \in {"arch_lint::allow", "arch_lint_macros::allow"}

parse_arch_lint_allow_attr(attr) ==
    IF ~is_arch_lint_allow_path(attr) \/ attr.args = {}
    THEN [ok |-> FALSE, rules |-> {}, reason |-> FALSE]
    ELSE [ok |-> TRUE, rules |-> attr.args, reason |-> attr.reason]

AttrHasRule(attr, rule_name) ==
    LET d == parse_arch_lint_allow_attr(attr)
    IN  d.ok /\ \E r \in d.rules : ReplaceDash(r) = ReplaceDash(rule_name) \/ r = "all"

RECURSIVE FirstAllowing(_, _, _)
FirstAllowing(attrs, rule_name, i) ==
    IF i > Len(attrs) THEN 0
    ELSE IF AttrHasRule(attrs[i], rule_name) THEN i
    ELSE FirstAllowing(attrs, rule_name, i + 1)

check_arch_lint_allow(attrs, rule_name) ==
    LET i == FirstAllowing(attrs, rule_name, 1)
    IN  IF i = 0 THEN Denied ELSE Allowed(attrs[i].reason)

-----------------------------------------------------------------------------
(* utils/paths.rs: use paths and use patterns are sequences of segments *)

Tail2(s, i) == SubSeq(s, i + 1, Len(s))

\* A variant of match_parts in which `*` also matches an empty run.
RECURSIVE match_parts_star_optional(_, _)
match_parts_star_optional(path, pattern) ==
    IF pattern = <<>> THEN path = <<>>
    ELSE LET first_pattern == pattern[1]
             rest_pattern == Tail(pattern)
         IN  CASE first_pattern = "**" ->
                    \E i \in 0..Len(path) :
                        match_parts_star_optional(Tail2(path, i), rest_pattern)
               [] first_pattern = "*" ->
                    \/ match_parts_star_optional(path, rest_pattern)
                    \/ path # <<>> /\ match_parts_star_optional(Tail(path), rest_pattern)
               [] OTHER ->
                    IF path = <<>> \/ path[1] # first_pattern THEN FALSE
                    ELSE match_parts_star_optional(Tail(path), rest_pattern)

RECURSIVE match_parts(_, _)
match_parts(path, pattern) ==
    IF pattern = <<>> THEN path = <<>>
    ELSE LET first_pattern == pattern[1]
             rest_pattern == Tail(pattern)
         IN  CASE first_pattern = "**" ->
                    \E i \in 0..Len(path) : match_parts(Tail2(path, i), rest_pattern)
               [] first_pattern = "*" ->
                    IF path = <<>> THEN FALSE ELSE match_parts(Tail(path), rest_pattern)
               [] OTHER ->
                    IF path = <<>> \/ path[1] # first_pattern THEN FALSE
                    ELSE match_parts(Tail(path), rest_pattern)

path_matches(path, pattern) == match_parts(path, pattern)

-----------------------------------------------------------------------------
(* declarative/model.rs *)

\* File paths are sequences of components.  A glob pattern is of the shape
\* `<dir>/**` and is kept as the components of <dir>: both glob::Pattern and
\* the prefix-and-boundary fallback accept exactly the paths strictly below.
GlobPattern_matches(pattern, path) ==
    /\ Len(path) > Len(pattern)
    /\ SubSeq(path, 1, Len(pattern)) = pattern

Scope_contains(scope, path) ==
    \E i \in 1..Len(scope.patterns) : GlobPattern_matches(scope.patterns[i], path)

RestrictUse_is_denied(r, use_path) ==
    \E i \in 1..Len(r.deny) : path_matches(use_path, r.deny[i])

ScopeDep_is_denied(dep, target) == \E i \in 1..Len(dep.to) : dep.to[i] = target

\* The declarative configuration the analyzer is run with.
DeclScopes ==
    [domain |-> [name |-> "domain", patterns |-> << <<"src", "domain">> >>],
     infra  |-> [name |-> "infra",  patterns |-> << <<"src", "infra">> >>],
     db     |-> [name |-> "db",     patterns |-> << <<"src", "infra", "db">> >>]]

DeclRestrictUses ==
    << [name |-> "no-sqlx", scope |-> "domain", deny |-> << <<"sqlx", "*">> >>,
        message |-> "No DB in domain.", severity |-> "Error"] >>

DeclScopeDeps ==
    << [from |-> "domain", to |-> <<"infra", "db">>,
        message |-> "domain must not depend on infra", severity |-> "Error"] >>

ScopeNames == DOMAIN DeclScopes

\* The orders in which a HashMap may iterate over the scopes.
ScopeOrders ==
    {o \in [1..Cardinality(ScopeNames) -> ScopeNames] :
        \A i, j \in DOMAIN o : i # j => o[i] # o[j]}

\* scopes.values().filter(contains).map(name).collect(), in the map's order.
scopes_for_path(scope_order, path) ==
    LET In(n) == Scope_contains(DeclScopes[n], path)
    IN  SelectSeq(scope_order, In)

scope_ref_contains(scope_ref, path) ==
    scope_ref \in DOMAIN DeclScopes /\ Scope_contains(DeclScopes[scope_ref], path)

-----------------------------------------------------------------------------
(* rule.rs: the Rule trait *)

NoUnwrapExpect(allow_in_tests, allow_expect, severity) ==
    [kind |-> "unwrap", allow_in_tests |-> allow_in_tests,
     allow_expect |-> allow_expect, severity |-> severity, scope_order |-> <<>>]

NoPanicInLib(allow_in_tests, severity) ==
    [kind |-> "panic", allow_in_tests |-> allow_in_tests,
     allow_expect |-> FALSE, severity |-> severity, scope_order |-> <<>>]

HandlerComplexity(severity) ==
    [kind |-> "complexity", allow_in_tests |-> FALSE,
     allow_expect |-> FALSE, severity |-> severity, scope_order |-> <<>>]

RestrictUseRule ==
    [kind |-> "restrict", allow_in_tests |-> FALSE,
     allow_expect |-> FALSE, severity |-> "Error", scope_order |-> <<>>]

\* The rule holds the DeclarativeConfig, whose scopes iterate in scope_order.
ScopeDepRule(scope_order) ==
    [kind |-> "scopedep", allow_in_tests |-> FALSE,
     allow_expect |-> FALSE, severity |-> "Error", scope_order |-> scope_order]

Rule_name(rule) ==
    CASE rule.kind = "unwrap" -> UNWRAP_NAME
      [] rule.kind = "panic" -> PANIC_NAME
      [] rule.kind = "complexity" -> COMPLEXITY_NAME
      [] rule.kind = "restrict" -> RESTRICT_USE_NAME
      [] rule.kind = "scopedep" -> SCOPE_DEP_NAME

Rule_code(rule) ==
    CASE rule.kind = "unwrap" -> UNWRAP_CODE
      [] rule.kind = "panic" -> PANIC_CODE
      [] rule.kind = "complexity" -> COMPLEXITY_CODE
      [] rule.kind = "restrict" -> RESTRICT_USE_CODE
      [] rule.kind = "scopedep" -> SCOPE_DEP_CODE

default_severity(rule) == rule.severity

requires_allow_reason(rule) == default_severity(rule) = "Error"

-----------------------------------------------------------------------------
(* Syntax trees *)

\* An item: a mod, fn, impl, or a method of an impl, with its attributes.  A
\* fn also has the name, line and column of its identifier and the number of
\* lines of its block.
ItemFn(attrs, name, line_count, line, col0) ==
    [kind |-> "fn", attrs |-> attrs, name |-> name, line_count |-> line_count,
     line |-> line, col0 |-> col0]

Item(kind, attrs) ==
    [kind |-> kind, attrs |-> attrs, name |-> "f", line_count |-> 1,
     line |-> 1, col0 |-> 0]

\* A method call `recv.name(..)`; line and col0 are those of the method name.
MethodCall(name, line, col0) ==
    [what |-> "method_call", name |-> name, path |-> <<>>, pos |-> "expr",
     line |-> line, col0 |-> col0, line_count |-> 0, uses |-> <<>>]

\* A macro invocation `path!(..)` in statement or in expression position;
\* line and col0 are those of the first segment of its path.
MacroCall(path, pos, line, col0) ==
    [what |-> "macro", name |-> "", path |-> path, pos |-> pos,
     line |-> line, col0 |-> col0, line_count |-> 0, uses |-> <<>>]

\* A use item; uses is its expansion into leaves [path, col0].
ItemUse(uses, line) ==
    [what |-> "use", name |-> "", path |-> <<>>, pos |-> "item",
     line |-> line, col0 |-> 0, line_count |-> 0, uses |-> uses]

Enter(item) == [t |-> "enter", item |-> item]
Leave == [t |-> "leave"]
Node(site) == [t |-> "site", site |-> site]

\* The visitor struct of a rule, with the call stack of its traversal: one
\* frame per item entered and not yet left, holding the saved flags.
NewVisitor ==
    [in_test_context |-> FALSE, in_allowed_context |-> FALSE,
     violations |-> <<>>, stack |-> <<>>]

Frame(item, vs) ==
    [kind |-> item.kind, attrs |-> item.attrs,
     was_in_test |-> vs.in_test_context, was_allowed |-> vs.in_allowed_context]

Push(vs, item) == [vs EXCEPT !.stack = Append(@, Frame(item, vs))]
Top(vs) == vs.stack[Len(vs.stack)]
Pop(vs) == [vs EXCEPT !.stack = SubSeq(@, 1, Len(@) - 1)]
Report(vs, v) == [vs EXCEPT !.violations = Append(@, v)]

MetaViolation(code, name, ctx, site) ==
    Violation(code, name, "Warning",
              Location(ctx.relative_path, site.line, site.col0 + 1),
              <<"Allow directive for", name, MissingReason>>)

-----------------------------------------------------------------------------
(* no_unwrap_expect.rs: UnwrapExpectVisitor *)

ClippyUnwrapLints == {"clippy::unwrap_used", "clippy::expect_used"}

\* visit_item_fn alone: a visitor without the visit_item_mod override.
Unwrap_visit_item_enter_fn_only(vs, item) ==
    LET in == Push(vs, item)
    IN  IF item.kind = "fn"
        THEN [in EXCEPT !.in_test_context =
                     IF has_test_attr(item.attrs) THEN TRUE ELSE @,
                        !.in_allowed_context =
                     IF has_allow_attr(item.attrs, ClippyUnwrapLints) THEN TRUE ELSE @]
        ELSE in

\* visit_item_mod and visit_item_fn up to the recursive visit; other items
\* are traversed by the default visitor.
Unwrap_visit_item_enter(vs, item) ==
    LET in == Push(vs, item)
    IN  CASE item.kind = "mod" ->
               [in EXCEPT !.in_test_context =
                    IF has_cfg_test(item.attrs) THEN TRUE ELSE @]
          [] item.kind = "fn" ->
               [in EXCEPT !.in_test_context =
                    IF has_test_attr(item.attrs) THEN TRUE ELSE @,
                          !.in_allowed_context =
                    IF has_allow_attr(item.attrs, ClippyUnwrapLints) THEN TRUE ELSE @]
          [] OTHER -> in

\* visit_item_mod and visit_item_fn after the recursive visit.
Unwrap_visit_item_leave(vs) ==
    LET f == Top(vs)
        out == Pop(vs)
    IN  CASE f.kind = "mod" -> [out EXCEPT !.in_test_context = f.was_in_test]
          [] f.kind = "fn" -> [out EXCEPT !.in_test_context = f.was_in_test,
                                          !.in_allowed_context = f.was_allowed]
          [] OTHER -> out

Unwrap_visit_expr_method_call(rule, ctx, vs, node) ==
    IF rule.allow_in_tests /\ vs.in_test_context THEN vs
    ELSE IF vs.in_allowed_context THEN vs
    ELSE LET is_unwrap == node.name = "unwrap"
             is_expect == node.name = "expect"
             allow_check == check_allow_with_reason(ctx.content, node.line, UNWRAP_NAME)
             location == Location(ctx.relative_path, node.line, node.col0 + 1)
         IN  IF is_unwrap \/ (is_expect /\ ~rule.allow_expect)
             THEN IF allow_check.allowed
                  THEN IF requires_allow_reason(rule) /\ ~allow_check.reason
                       THEN Report(vs, MetaViolation(UNWRAP_CODE, UNWRAP_NAME, ctx, node))
                       ELSE vs
                  ELSE Report(vs, Violation(UNWRAP_CODE, UNWRAP_NAME, rule.severity, location,
                              IF is_unwrap
                              THEN <<".unwrap() is forbidden in production code">>
                              ELSE <<".expect() is forbidden in production code">>))
             ELSE vs

-----------------------------------------------------------------------------
(* no_panic_in_lib.rs: PanicVisitor *)

PanicFamily == {"panic", "todo", "unimplemented", "unreachable"}

\* path_str == m || path_str.ends_with("::m"): the last segment is m.
IsPanicMacro(path) == path # <<>> /\ path[Len(path)] \in PanicFamily

check_panic_macro(rule, ctx, vs, node) ==
    IF rule.allow_in_tests /\ vs.in_test_context THEN vs
    ELSE IF vs.in_allowed_context THEN vs
    ELSE IF ~IsPanicMacro(node.path) THEN vs
    ELSE LET allow_check == check_allow_with_reason(ctx.content, node.line, PANIC_NAME)
             location == Location(ctx.relative_path, node.line, node.col0 + 1)
         IN  IF allow_check.allowed
             THEN IF requires_allow_reason(rule) /\ ~allow_check.reason
                  THEN Report(vs, MetaViolation(PANIC_CODE, PANIC_NAME, ctx, node))
                  ELSE vs
             ELSE Report(vs, Violation(PANIC_CODE, PANIC_NAME, rule.severity, location,
                         <<node.path[Len(node.path)], "is forbidden in library code">>))

Panic_visit_macro(rule, ctx, vs, node) == check_panic_macro(rule, ctx, vs, node)

\* The override checks the macro and then calls syn::visit::visit_expr_macro,
\* whose default body visits the inner syn::Macro through visit_macro.
Panic_visit_expr_macro(rule, ctx, vs, node) ==
    Panic_visit_macro(rule, ctx, check_panic_macro(rule, ctx, vs, node), node)

\* visit_item_mod, visit_item_fn and visit_item_impl up to the recursive visit.
Panic_visit_item_enter(vs, item) ==
    LET in == Push(vs, item)
        allow == check_arch_lint_allow(item.attrs, PANIC_NAME).allowed
    IN  CASE item.kind = "mod" ->
               [in EXCEPT !.in_test_context =
                    IF has_cfg_test(item.attrs) THEN TRUE ELSE @,
                          !.in_allowed_context = IF allow THEN TRUE ELSE @]
          [] item.kind = "fn" ->
               [in EXCEPT !.in_test_context =
                    IF has_test_attr(item.attrs) THEN TRUE ELSE @,
                          !.in_allowed_context = IF allow THEN TRUE ELSE @]
          [] item.kind = "impl" ->
               [in EXCEPT !.in_allowed_context = IF allow THEN TRUE ELSE @]
          [] OTHER -> in

\* A visit_item_* that returns from the recursive visit without writing the
\* saved flags back.
Panic_visit_item_leave_keep_flags(vs) == Pop(vs)

\* visit_item_mod, visit_item_fn and visit_item_impl after the recursive visit.
Panic_visit_item_leave(vs) ==
    LET f == Top(vs)
        out == Pop(vs)
    IN  CASE f.kind \in {"mod", "fn"} ->
               [out EXCEPT !.in_test_context = f.was_in_test,
                           !.in_allowed_context = f.was_allowed]
          [] f.kind = "impl" -> [out EXCEPT !.in_allowed_context = f.was_allowed]
          [] OTHER -> out

-----------------------------------------------------------------------------
(* handler_complexity.rs: ComplexityVisitor *)

max_handler_lines == 150

\* Function names that start with one of HANDLER_PATTERNS.
HandlerNames == {"handle_event", "process_job", "on_click", "update"}

is_handler_function(name) == name \in HandlerNames

\* visit_item_fn up to the recursive visit: the line-count check.
Complexity_visit_item_enter(rule, ctx, vs, item) ==
    LET in == Push(vs, item)
    IN  IF item.kind = "fn" /\ is_handler_function(item.name)
           /\ item.line_count > max_handler_lines
        THEN Report(in, Violation(COMPLEXITY_CODE, COMPLEXITY_NAME, rule.severity,
                    Location(ctx.relative_path, item.line, item.col0 + 1),
                    <<"Handler", item.name, "has too many lines">>))
        ELSE in

-----------------------------------------------------------------------------
(* declarative/rules.rs *)

\* The text of a use path: its segments joined by `::`.
RECURSIVE UsePathText(_)
UsePathText(path) ==
    IF path = <<>> THEN ""
    ELSE IF Len(path) = 1 THEN path[1]
    ELSE path[1] \o "::" \o UsePathText(Tail(path))

\* A variant of RestrictUse_applicable that does not look at the file's scope.
RestrictUse_applicable_any_file(ctx) == DeclRestrictUses

RestrictUse_applicable(ctx) ==
    LET In(r) == scope_ref_contains(r.scope, ctx.relative_path)
    IN  SelectSeq(DeclRestrictUses, In)

RECURSIVE RestrictUse_each_rule(_, _, _, _, _, _)
RestrictUse_each_rule(applicable, ctx, vs, node, use_item, k) ==
    IF k > Len(applicable) THEN vs
    ELSE LET rule == applicable[k]
             next == IF RestrictUse_is_denied(rule, use_item.path)
                     THEN Report(vs, Violation(RESTRICT_USE_CODE, rule.name, rule.severity,
                                 Location(ctx.relative_path, node.line, use_item.col0 + 1),
                                 <<rule.message, UsePathText(use_item.path)>>))
                     ELSE vs
         IN  RestrictUse_each_rule(applicable, ctx, next, node, use_item, k + 1)

RECURSIVE RestrictUse_each_use(_, _, _, _, _)
RestrictUse_each_use(applicable, ctx, vs, node, j) ==
    IF j > Len(node.uses) THEN vs
    ELSE RestrictUse_each_use(applicable, ctx,
             RestrictUse_each_rule(applicable, ctx, vs, node, node.uses[j], 1),
             node, j + 1)

RestrictUse_visit_item_use(ctx, vs, node) ==
    RestrictUse_each_use(RestrictUse_applicable(ctx), ctx, vs, node, 1)

\* A variant of resolve_target_scopes that takes every path for a crate path.
resolve_target_scopes_any_crate(scope_order, use_path) ==
    IF Len(use_path) < 2 THEN <<>>
    ELSE scopes_for_path(scope_order, <<"src">> \o Tail(use_path))

\* The candidate file of `crate::a::b` is src/a/b.rs; its last component
\* stands for `b.rs`.
resolve_target_scopes(scope_order, use_path) ==
    IF use_path = <<>> \/ use_path[1] # "crate" \/ Len(use_path) < 2 THEN <<>>
    ELSE scopes_for_path(scope_order, <<"src">> \o Tail(use_path))

ScopeDep_applicable(rule, ctx) ==
    LET file_scopes == scopes_for_path(rule.scope_order, ctx.relative_path)
        From(dep) == \E i \in 1..Len(file_scopes) : file_scopes[i] = dep.from
    IN  SelectSeq(DeclScopeDeps, From)

RECURSIVE ScopeDep_each_target(_, _, _, _, _, _, _)
ScopeDep_each_target(dep, targets, ctx, vs, node, use_item, t) ==
    IF t > Len(targets) THEN vs
    ELSE LET next == IF ScopeDep_is_denied(dep, targets[t])
                     THEN Report(vs, Violation(SCOPE_DEP_CODE, SCOPE_DEP_NAME, dep.severity,
                                 Location(ctx.relative_path, node.line, use_item.col0 + 1),
                                 <<dep.message, UsePathText(use_item.path), dep.from, targets[t]>>))
                     ELSE vs
         IN  ScopeDep_each_target(dep, targets, ctx, next, node, use_item, t + 1)

RECURSIVE ScopeDep_each_dep(_, _, _, _, _, _, _)
ScopeDep_each_dep(applicable, targets, ctx, vs, node, use_item, k) ==
    IF k > Len(applicable) THEN vs
    ELSE ScopeDep_each_dep(applicable, targets, ctx,
             ScopeDep_each_target(applicable[k], targets, ctx, vs, node, use_item, 1),
             node, use_item, k + 1)

RECURSIVE ScopeDep_each_use(_, _, _, _, _)
ScopeDep_each_use(rule, ctx, vs, node, j) ==
    IF j > Len(node.uses) THEN vs
    ELSE ScopeDep_each_use(rule, ctx,
             ScopeDep_each_dep(ScopeDep_applicable(rule, ctx),
                               resolve_target_scopes(rule.scope_order, node.uses[j].path),
                               ctx, vs, node, node.uses[j], 1),
             node, j + 1)

ScopeDep_visit_item_use(rule, ctx, vs, node) == ScopeDep_each_use(rule, ctx, vs, node, 1)

-----------------------------------------------------------------------------
(* context.rs: FileContext *)

\* The analysis root, an absolute path.
Root == <<"/", "work", "proj">>

IsPrefix(p, q) == Len(p) <= Len(q) /\ SubSeq(q, 1, Len(p)) = p

\* Path::strip_prefix(root), falling back to the path itself.
strip_prefix(path, root) ==
    IF IsPrefix(root, path) THEN SubSeq(path, Len(root) + 1, Len(path)) ELSE path

TestDirs == {"tests", "test", "benches"}

\* File names ending in `_test.rs` or `_tests.rs`, starting with `test_`, or
\* equal to `tests.rs`.
TestFileNames == {"user_test.rs", "user_tests.rs", "test_util.rs", "tests.rs"}

detect_test_file(path) ==
    \/ \E i \in 1..Len(path) : path[i] \in TestDirs
    \/ path # <<>> /\ path[Len(path)] \in TestFileNames

FileContext_new(path, content, root) ==
    [path |-> path, content |-> content, is_test |-> detect_test_file(path),
     relative_path |-> strip_prefix(path, root)]

-----------------------------------------------------------------------------
(* Rule::check: the traversal of a file by a rule's visitor *)

Rule_visit_item_enter(rule, ctx, vs, item) ==
    CASE rule.kind = "unwrap" -> Unwrap_visit_item_enter(vs, item)
      [] rule.kind = "panic" -> Panic_visit_item_enter(vs, item)
      [] rule.kind = "complexity" -> Complexity_visit_item_enter(rule, ctx, vs, item)
      [] OTHER -> Push(vs, item)

Rule_visit_item_leave(rule, vs) ==
    CASE rule.kind = "unwrap" -> Unwrap_visit_item_leave(vs)
      [] rule.kind = "panic" -> Panic_visit_item_leave(vs)
      [] OTHER -> Pop(vs)

Rule_visit_node(rule, ctx, vs, node) ==
    CASE rule.kind = "unwrap" /\ node.what = "method_call" ->
             Unwrap_visit_expr_method_call(rule, ctx, vs, node)
      [] rule.kind = "panic" /\ node.what = "macro" /\ node.pos = "expr" ->
             Panic_visit_expr_macro(rule, ctx, vs, node)
      [] rule.kind = "panic" /\ node.what = "macro" /\ node.pos = "stmt" ->
             Panic_visit_macro(rule, ctx, vs, node)
      [] rule.kind = "restrict" /\ node.what = "use" ->
             RestrictUse_visit_item_use(ctx, vs, node)
      [] rule.kind = "scopedep" /\ node.what = "use" ->
             ScopeDep_visit_item_use(rule, ctx, vs, node)
      [] OTHER -> vs

\* The early returns of Rule::check, before a visitor is built.
Rule_check_returns_early(rule, ctx) ==
    CASE rule.kind \in {"unwrap", "panic"} -> rule.allow_in_tests /\ ctx.is_test
      [] rule.kind = "restrict" -> RestrictUse_applicable(ctx) = <<>>
      [] rule.kind = "scopedep" ->
             \/ scopes_for_path(rule.scope_order, ctx.relative_path) = <<>>
             \/ ScopeDep_applicable(rule, ctx) = <<>>
      [] OTHER -> FALSE

RECURSIVE visit_file(_, _, _, _, _)
visit_file(rule, ctx, vs, ast, i) ==
    IF i > Len(ast) THEN vs
    ELSE LET ev == ast[i]
             next == CASE ev.t = "enter" -> Rule_visit_item_enter(rule, ctx, vs, ev.item)
                       [] ev.t = "leave" -> Rule_visit_item_leave(rule, vs)
                       [] ev.t = "site" -> Rule_visit_node(rule, ctx, vs, ev.site)
         IN  visit_file(rule, ctx, next, ast, i + 1)

Rule_check(rule, ctx, ast) ==
    IF Rule_check_returns_early(rule, ctx) THEN <<>>
    ELSE visit_file(rule, ctx, NewVisitor, ast, 1).violations

-----------------------------------------------------------------------------
(* The inputs of a run of Rule::check *)

AllowName(rule) == ReplaceDash(Rule_name(rule))

NoAttrs == <<>>
TestAttr == <<Attr("test", {}, FALSE)>>
CfgTestAttr == <<Attr("cfg", {"test"}, FALSE)>>
ClippyAllowAttr == <<Attr("allow", {"clippy::unwrap_used"}, FALSE)>>
AllowRuleAttr(rule) == <<Attr("arch_lint::allow", {AllowName(rule)}, FALSE)>>
AllowAllAttr == <<Attr("arch_lint::allow", {"all"}, TRUE)>>

\* The rule names a comment directive may list.
DirectiveNames ==
    {UNWRAP_NAME, PANIC_NAME, COMPLEXITY_NAME, RESTRICT_USE_NAME, SCOPE_DEP_NAME, "no-sqlx"}

\* Source texts: the k-th node of a file sits on line 2k, below a line that
\* may hold a directive.  A text repeats a pattern of four lines.
ContentOf(pattern) == [i \in 1..(2 * MaxSites) |-> pattern[((i - 1) % 4) + 1]]

Contents ==
    { ContentOf(<<DirLine({"all"}, FALSE), CodeLine, DirLine({"all"}, TRUE), CodeLine>>),
      ContentOf(<<DirLine(DirectiveNames, TRUE), CodeLine,
                  DirLine(DirectiveNames, FALSE), CodeLine>>),
      ContentOf(<<DirLine({"other-rule"}, TRUE), TrailingDirLine({"all"}, TRUE),
                  CodeLine, CodeLine>>) }

NodeLine(n) == 2 * (n + 1)

RelPaths == { <<"src", "domain", "service.rs">>, <<"tests", "api.rs">> }

VisitRules ==
    { NoUnwrapExpect(TRUE, FALSE, "Error"), NoUnwrapExpect(FALSE, FALSE, "Error"),
      NoUnwrapExpect(TRUE, TRUE, "Warning"),
      NoPanicInLib(TRUE, "Error"), NoPanicInLib(FALSE, "Warning"),
      HandlerComplexity("Warning"), HandlerComplexity("Error"),
      RestrictUseRule }
    \cup {ScopeDepRule(o) : o \in ScopeOrders}

FnItems(rule, attrs, line) ==
    IF rule.kind = "complexity"
    THEN {ItemFn(attrs, n, c, line, 3) : n \in {"handle_event", "helper"}, c \in {10, 200}}
    ELSE {Item("fn", attrs)}

\* The items that may open where the traversal stands: in the file or in a
\* mod, in an impl, or in the body of a fn or method.
EnterChoices(rule, where, line) ==
    CASE where \in {"file", "mod"} ->
             {Item("mod", a) : a \in {NoAttrs, CfgTestAttr, AllowRuleAttr(rule), AllowAllAttr}}
             \cup UNION {FnItems(rule, a, line) :
                     a \in {NoAttrs, TestAttr, ClippyAllowAttr, AllowRuleAttr(rule)}}
             \cup {Item("impl", a) : a \in {NoAttrs, AllowRuleAttr(rule)}}
      [] where = "impl" ->
             {Item("method", a) : a \in {NoAttrs, AllowRuleAttr(rule)}}
      [] OTHER -> UNION {FnItems(rule, a, line) : a \in {NoAttrs, TestAttr}}

UseLeaf(path, col0) == [path |-> path, col0 |-> col0]

UseChoices ==
    { <<UseLeaf(<<"crate", "infra", "db", "Pool">>, 4)>>,
      <<UseLeaf(<<"sqlx", "query">>, 10), UseLeaf(<<"sqlx", "Pool">>, 17)>>,
      <<UseLeaf(<<"std", "fmt">>, 4)>> }

\* The nodes that may follow where the traversal stands.
NodeChoices(rule, where, line) ==
    CASE where \in {"fn", "method"} /\ rule.kind = "unwrap" ->
             {MethodCall(n, line, 8) : n \in {"unwrap", "expect", "clone"}}
      [] where \in {"fn", "method"} /\ rule.kind = "panic" ->
             {MacroCall(p, pos, line, 4) :
                  p \in {<<"std", "panic">>, <<"println">>}, pos \in {"stmt", "expr"}}
      [] where \in {"file", "mod"} /\ rule.kind \in {"restrict", "scopedep"} ->
             {ItemUse(u, line) : u \in UseChoices}
      [] OTHER -> {}

\* A fn a rule reports on takes a line of its own, as a node does.
TakesLine(rule, item) == rule.kind = "complexity" /\ item.kind = "fn"

Where(vs) == IF vs.stack = <<>> THEN "file" ELSE Top(vs).kind

NoNode == [t |-> "none"]

-----------------------------------------------------------------------------
(* Specification SpecVisit: one run of Rule::check, the file's syntax tree  *)
(* being produced as the traversal goes.                                    *)

CallIdle ==
    /\ call = [fn |-> "none"]
    /\ ret = <<>>

AnalyzerIdle ==
    /\ config = <<>>
    /\ fail_on_parse_error = FALSE
    /\ rules = <<>>
    /\ project_rules = <<>>
    /\ disk = <<>>
    /\ pc = "idle"
    /\ files = <<>>
    /\ idx = 0
    /\ result = [violations |-> <<>>, files_checked |-> 0]
    /\ skipped = {}
    /\ err = "none"
    /\ runs = 0
    /\ prev_result = [violations |-> <<>>, files_checked |-> 0]

InitVisit ==
    /\ v_rule \in VisitRules
    /\ v_ctx \in {FileContext_new(Root \o p, c, Root) : p \in RelPaths, c \in Contents}
    /\ v_pc = "check"
    /\ visitor = NewVisitor
    /\ v_last = NoNode
    /\ v_nsites = 0
    /\ AnalyzerIdle
    /\ CallIdle

\* Rule::check up to visit_file.
V_Check ==
    /\ v_pc = "check"
    /\ v_pc' = IF Rule_check_returns_early(v_rule, v_ctx) THEN "done" ELSE "walk"
    /\ UNCHANGED <<v_rule, v_ctx, visitor, v_last, v_nsites>>

V_Enter ==
    /\ v_pc = "walk"
    /\ Len(visitor.stack) < MaxDepth
    /\ \E item \in EnterChoices(v_rule, Where(visitor), NodeLine(v_nsites)) :
          /\ TakesLine(v_rule, item) => v_nsites < MaxSites
          /\ visitor' = Rule_visit_item_enter(v_rule, v_ctx, visitor, item)
          /\ v_last' = [t |-> "enter", node |-> item, before |-> Len(visitor.violations)]
          /\ v_nsites' = IF TakesLine(v_rule, item) THEN v_nsites + 1 ELSE v_nsites
    /\ UNCHANGED <<v_rule, v_ctx, v_pc>>

V_Leave ==
    /\ v_pc = "walk"
    /\ visitor.stack # <<>>
    /\ visitor' = Rule_visit_item_leave(v_rule, visitor)
    /\ v_last' = [t |-> "leave", node |-> Top(visitor), before |-> Len(visitor.violations)]
    /\ UNCHANGED <<v_rule, v_ctx, v_pc, v_nsites>>

V_Node ==
    /\ v_pc = "walk"
    /\ v_nsites < MaxSites
    /\ \E node \in NodeChoices(v_rule, Where(visitor), NodeLine(v_nsites)) :
          /\ visitor' = Rule_visit_node(v_rule, v_ctx, visitor, node)
          /\ v_last' = [t |-> "site", node |-> node, before |-> Len(visitor.violations)]
    /\ v_nsites' = v_nsites + 1
    /\ UNCHANGED <<v_rule, v_ctx, v_pc>>

\* visit_file returns; Rule::check returns visitor.violations.
V_Return ==
    /\ v_pc = "walk"
    /\ visitor.stack = <<>>
    /\ v_pc' = "done"
    /\ v_last' = NoNode
    /\ UNCHANGED <<v_rule, v_ctx, visitor, v_nsites>>

NextVisit ==
    \/ V_Check /\ UNCHANGED <<avars, cvars>>
    \/ V_Enter /\ UNCHANGED <<avars, cvars>>
    \/ V_Leave /\ UNCHANGED <<avars, cvars>>
    \/ V_Node /\ UNCHANGED <<avars, cvars>>
    \/ V_Return /\ UNCHANGED <<avars, cvars>>

SpecVisit == InitVisit /\ [][NextVisit]_vars

-----------------------------------------------------------------------------
(* Properties of Rule::check (specification SpecVisit) *)

\* The findings the last step of the traversal added.
NewFindings == SubSeq(visitor.violations, v_last.before + 1, Len(visitor.violations))

\* The first comment directive on line L-1 or L that names rule R or `all`.
CoveringDirective(content, L, R) == check_allow_with_reason(content, L, R)

\* The frames of the items enclosing the node of the last step.
Enclosing ==
    IF v_last.t = "enter" THEN SubSeq(visitor.stack, 1, Len(visitor.stack) - 1)
    ELSE visitor.stack

\* An attribute `#[arch_lint::allow(..)]` that names the rule or `all`.
IsAllowAttrFor(rule, attr) ==
    /\ attr.path \in {"arch_lint::allow", "arch_lint_macros::allow"}
    /\ (AllowName(rule) \in attr.args \/ Rule_name(rule) \in attr.args \/ "all" \in attr.args)

CarriesAllow(rule, frame) ==
    /\ frame.kind \in {"mod", "fn", "impl"}
    /\ \E i \in 1..Len(frame.attrs) : IsAllowAttrFor(rule, frame.attrs[i])

CarriesAllowWithoutReason(rule, frame) ==
    /\ frame.kind \in {"mod", "fn", "impl"}
    /\ \E i \in 1..Len(frame.attrs) :
          IsAllowAttrFor(rule, frame.attrs[i]) /\ ~frame.attrs[i].reason

CarriesTest(frame) ==
    \/ frame.kind = "fn" /\ \E i \in 1..Len(frame.attrs) : frame.attrs[i].path = "test"
    \/ frame.kind = "mod" /\ \E i \in 1..Len(frame.attrs) :
          frame.attrs[i].path = "cfg" /\ "test" \in frame.attrs[i].args

InAllowedItem(rule, frames) == \E k \in 1..Len(frames) : CarriesAllow(rule, frames[k])
InTestItem(frames) == \E k \in 1..Len(frames) : CarriesTest(frames[k])

\* The node is one the rule reports when nothing suppresses it.
NodeViolates(rule, ctx, node) ==
    CASE rule.kind = "unwrap" ->
             node.name = "unwrap" \/ (node.name = "expect" /\ ~rule.allow_expect)
      [] rule.kind = "panic" -> IsPanicMacro(node.path)
      [] rule.kind = "restrict" ->
             \E j \in 1..Len(node.uses), k \in 1..Len(RestrictUse_applicable(ctx)) :
                 RestrictUse_is_denied(RestrictUse_applicable(ctx)[k], node.uses[j].path)
      [] rule.kind = "scopedep" ->
             \E j \in 1..Len(node.uses), k \in 1..Len(ScopeDep_applicable(rule, ctx)) :
                 \E t \in ScopeNames :
                     /\ Scope_contains(DeclScopes[t], <<"src">> \o Tail(node.uses[j].path))
                     /\ node.uses[j].path[1] = "crate"
                     /\ ScopeDep_is_denied(ScopeDep_applicable(rule, ctx)[k], t)
      [] OTHER -> FALSE

\* The last step visited a node the rule would report here: a violating node
\* outside test items and outside items carrying an allow attribute.
AtReportableNode ==
    /\ v_last.t = "site"
    /\ NodeViolates(v_rule, v_ctx, v_last.node)
    /\ ~(v_rule.allow_in_tests /\ InTestItem(visitor.stack))
    /\ \A k \in 1..Len(visitor.stack) : visitor.stack[k].attrs \in {NoAttrs, TestAttr, CfgTestAttr}

\* C3: every finding other than the "missing required reason" meta-finding
\* that a rule reports at line L has no allow comment directive naming the
\* finding's rule or `all` on line L or on line L-1.
C3_NoFindingUnderAllowComment ==
    \A i \in 1..Len(visitor.violations) :
        LET F == visitor.violations[i]
        IN  ~IsMeta(F) => ~CoveringDirective(v_ctx.content, F.line, F.rule).allowed

\* C4: the visit of a node that lies inside a mod, fn or impl carrying an
\* `#[arch_lint::allow(..)]` attribute naming the rule or `all`, at any
\* depth, adds no finding other than the meta-finding.
C4_NoFindingInsideAllowedItem ==
    (v_last.t \in {"site", "enter"} /\ InAllowedItem(v_rule, Enclosing))
        => \A i \in 1..Len(NewFindings) : IsMeta(NewFindings[i])

\* C5: at a node the rule would report and that an allow comment directive
\* for the rule covers, the rule adds exactly one finding, a Warning with the
\* rule's code and name saying "missing required reason", when it requires a
\* reason and the directive has none, and adds no finding otherwise; the
\* violation itself is never reported.
C5_CommentAllowOutcome ==
    LET d == CoveringDirective(v_ctx.content, v_last.node.line, Rule_name(v_rule))
    IN  (AtReportableNode /\ d.allowed) =>
            IF requires_allow_reason(v_rule) /\ ~d.reason
            THEN /\ Len(NewFindings) = 1
                 /\ NewFindings[1].severity = "Warning"
                 /\ NewFindings[1].code = Rule_code(v_rule)
                 /\ NewFindings[1].rule = Rule_name(v_rule)
                 /\ IsMeta(NewFindings[1])
            ELSE NewFindings = <<>>

\* C6: at a violating node inside an item whose allow attribute for the rule
\* has no reason, a rule that requires a reason and has detected the
\* suppression still adds a Warning "missing required reason" meta-finding.
C6_AttributeAllowWithoutReasonWarns ==
    ( /\ v_last.t = "site"
      /\ NodeViolates(v_rule, v_ctx, v_last.node)
      /\ requires_allow_reason(v_rule)
      /\ visitor.in_allowed_context
      /\ ~(v_rule.allow_in_tests /\ InTestItem(visitor.stack))
      /\ ~CoveringDirective(v_ctx.content, v_last.node.line, Rule_name(v_rule)).allowed
      /\ \E k \in 1..Len(visitor.stack) : CarriesAllowWithoutReason(v_rule, visitor.stack[k]) )
        => \E i \in 1..Len(NewFindings) :
               IsMeta(NewFindings[i]) /\ NewFindings[i].severity = "Warning"

\* C9: a rule configured to allow tests adds no finding at a node inside a fn
\* carrying `#[test]` or inside a mod carrying `#[cfg(test)]`, at any depth,
\* and reports nothing at all in a file classified as a test file.
C9_NoFindingInTestContext ==
    v_rule.allow_in_tests =>
        /\ (v_last.t \in {"site", "enter"} /\ InTestItem(Enclosing)) => NewFindings = <<>>
        /\ v_ctx.is_test => visitor.violations = <<>>

\* A violating node, not covered by any comment, in a plain fn nested in a
\* `#[cfg(test)]` mod has been visited by a rule that allows tests.
C9_Witness ==
    /\ v_rule.allow_in_tests
    /\ ~v_ctx.is_test
    /\ v_last.t = "site"
    /\ NodeViolates(v_rule, v_ctx, v_last.node)
    /\ ~CoveringDirective(v_ctx.content, v_last.node.line, Rule_name(v_rule)).allowed
    /\ Len(visitor.stack) = 2
    /\ visitor.stack[1].kind = "mod" /\ CarriesTest(visitor.stack[1])
    /\ visitor.stack[2].kind = "fn" /\ visitor.stack[2].attrs = NoAttrs

-----------------------------------------------------------------------------
(* config.rs: Config.rules maps a rule name to its RuleConfig *)

\* enabled: Option<bool>, severity: Option<Severity>.
RuleConfig(enabled, severity) == [enabled |-> enabled, severity |-> severity]

is_rule_enabled(cfg, rule_name) ==
    IF rule_name \in DOMAIN cfg
    THEN (IF cfg[rule_name].enabled = "None" THEN TRUE
          ELSE cfg[rule_name].enabled = "Some(true)")
    ELSE TRUE

rule_severity(cfg, rule_name) ==
    IF rule_name \in DOMAIN cfg THEN cfg[rule_name].severity ELSE "None"

-----------------------------------------------------------------------------
(* rule.rs: ProjectRule, with the rule of the trait's example *)

README_NAME == "require-readme"
README_CODE == "AL100"

RequireReadme == [kind |-> "readme"]

ProjectRule_name(rule) == README_NAME

check_project(rule, root, fs) ==
    IF ~fs.readme
    THEN <<Violation(README_CODE, README_NAME, "Warning", Location(root, 0, 0),
                     <<"Project should have a README.md">>)>>
    ELSE <<>>

-----------------------------------------------------------------------------
(* Ordering of paths: std::path::Path compares component by component *)

\* The components the model uses, in byte order; the root directory
\* component sorts before every normal component.
ComponentOrder ==
    <<"/", "Api.kt", "Db.kt", "api.rs", "db", "domain", "gen.rs", "infra", "lib.rs", "pool.rs", "proj",
      "service.rs", "src", "target", "tests", "work">>

Rank(c) == CHOOSE i \in 1..Len(ComponentOrder) : ComponentOrder[i] = c

cmp_int(a, b) == IF a < b THEN -1 ELSE IF a > b THEN 1 ELSE 0

RECURSIVE cmp_path(_, _)
cmp_path(a, b) ==
    IF a = <<>> /\ b = <<>> THEN 0
    ELSE IF a = <<>> THEN -1
    ELSE IF b = <<>> THEN 1
    ELSE IF a[1] # b[1] THEN cmp_int(Rank(a[1]), Rank(b[1]))
    ELSE cmp_path(Tail(a), Tail(b))

\* A comparator that stops at the line.
cmp_violation_file_line(a, b) ==
    IF cmp_path(a.file, b.file) # 0 THEN cmp_path(a.file, b.file)
    ELSE cmp_int(a.line, b.line)

\* The comparator of the final sort: file, then line, then column.
cmp_violation(a, b) ==
    IF cmp_path(a.file, b.file) # 0 THEN cmp_path(a.file, b.file)
    ELSE IF a.line # b.line THEN cmp_int(a.line, b.line)
    ELSE cmp_int(a.column, b.column)

\* slice::sort_by is a stable sort: v goes after the elements not greater.
SortInsert(sorted, v) ==
    LET after == {i \in 1..Len(sorted) : cmp_violation(sorted[i], v) > 0}
        at == IF after = {} THEN Len(sorted) + 1
              ELSE CHOOSE i \in after : \A j \in after : i <= j
    IN  SubSeq(sorted, 1, at - 1) \o <<v>> \o SubSeq(sorted, at, Len(sorted))

RECURSIVE sort_by(_, _, _)
sort_by(violations, sorted, i) ==
    IF i > Len(violations) THEN sorted
    ELSE sort_by(violations, SortInsert(sorted, violations[i]), i + 1)

-----------------------------------------------------------------------------
(* analyzer.rs *)

\* Directories the default exclude patterns `**/target/**` and
\* `**/vendor/**` name.
ExcludeDirs == {"target", "vendor"}

should_exclude(path) == \E i \in 1..(Len(path) - 1) : path[i] \in ExcludeDirs

\* glob yields the entries of each directory in ascending order of name.
RECURSIVE GlobOrder(_)
GlobOrder(paths) ==
    IF paths = {} THEN <<>>
    ELSE LET first == CHOOSE p \in paths : \A q \in paths : cmp_path(p, q) <= 0
         IN  <<first>> \o GlobOrder(paths \ {first})

RECURSIVE ReadDirOrder(_)
\* The paths in descending order.
ReadDirOrder(paths) ==
    IF paths = {} THEN <<>>
    ELSE LET last == CHOOSE p \in paths : \A q \in paths : cmp_path(q, p) <= 0
         IN  <<last>> \o ReadDirOrder(paths \ {last})

\* A variant of discover_files over a glob that yields the entries of a
\* directory in descending order of name.
discover_files_descending(fs) ==
    IF fs.glob # "ok" THEN [ok |-> FALSE, files |-> <<>>, err |-> fs.glob]
    ELSE LET Keep(p) == ~should_exclude(p)
         IN  [ok |-> TRUE, files |-> SelectSeq(ReadDirOrder(DOMAIN fs.entries), Keep),
              err |-> "none"]

discover_files(fs) ==
    IF fs.glob # "ok" THEN [ok |-> FALSE, files |-> <<>>, err |-> fs.glob]
    ELSE LET Keep(p) == ~should_exclude(p)
         IN  [ok |-> TRUE, files |-> SelectSeq(GlobOrder(DOMAIN fs.entries), Keep),
              err |-> "none"]

discover_cargo_files(fs) ==
    IF fs.glob # "ok" THEN [ok |-> FALSE, err |-> fs.glob] ELSE [ok |-> TRUE, err |-> "none"]

apply_severity_override(cfg, rule_name, violations) ==
    IF rule_severity(cfg, rule_name) # "None"
    THEN [i \in 1..Len(violations) |->
             [violations[i] EXCEPT !.severity = rule_severity(cfg, rule_name)]]
    ELSE violations

RECURSIVE run_rules(_, _, _, _, _, _)
run_rules(cfg, rule_list, ctx, ast, violations, k) ==
    IF k > Len(rule_list) THEN violations
    ELSE IF ~is_rule_enabled(cfg, Rule_name(rule_list[k]))
    THEN run_rules(cfg, rule_list, ctx, ast, violations, k + 1)
    ELSE run_rules(cfg, rule_list, ctx, ast,
             violations \o apply_severity_override(cfg, Rule_name(rule_list[k]),
                                                   Rule_check(rule_list[k], ctx, ast)),
             k + 1)

\* analyze_file with a parse failure turned into an empty list of findings.
analyze_file_parse_ok(cfg, rule_list, path, file) ==
    IF file.kind = "unreadable" THEN [ok |-> FALSE, err |-> "Io", violations |-> <<>>]
    ELSE IF file.kind = "unparsable" THEN [ok |-> TRUE, err |-> "none", violations |-> <<>>]
    ELSE [ok |-> TRUE, err |-> "none",
          violations |-> run_rules(cfg, rule_list, FileContext_new(path, file.content, Root),
                                   file.ast, <<>>, 1)]

analyze_file(cfg, rule_list, path, file) ==
    IF file.kind = "unreadable" THEN [ok |-> FALSE, err |-> "Io", violations |-> <<>>]
    ELSE IF file.kind = "unparsable" THEN [ok |-> FALSE, err |-> "Parse", violations |-> <<>>]
    ELSE [ok |-> TRUE, err |-> "none",
          violations |-> run_rules(cfg, rule_list, FileContext_new(path, file.content, Root),
                                   file.ast, <<>>, 1)]

RECURSIVE run_project_rules(_, _, _, _, _)
run_project_rules(cfg, rule_list, fs, violations, k) ==
    IF k > Len(rule_list) THEN violations
    ELSE IF ~is_rule_enabled(cfg, ProjectRule_name(rule_list[k]))
    THEN run_project_rules(cfg, rule_list, fs, violations, k + 1)
    ELSE run_project_rules(cfg, rule_list, fs,
             violations \o apply_severity_override(cfg, ProjectRule_name(rule_list[k]),
                                                   check_project(rule_list[k], Root, fs)),
             k + 1)

-----------------------------------------------------------------------------
(* The inputs of Analyzer::analyze *)

Unreadable == [kind |-> "unreadable", content |-> <<>>, ast |-> <<>>]
Unparsable == [kind |-> "unparsable", content |-> <<>>, ast |-> <<>>]
Source(content, ast) == [kind |-> "source", content |-> content, ast |-> ast]

\* fn handle_event() { .. let v = x.unwrap() + panic!(); .. }, a long handler.
HandlerSource ==
    Source(ContentOf(<<DirLine({"other-rule"}, TRUE), TrailingDirLine({"all"}, TRUE),
                       CodeLine, CodeLine>>),
           << Enter(ItemFn(NoAttrs, "handle_event", 200, 2, 3)),
              Node(MacroCall(<<"panic">>, "expr", 4, 12)),
              Node(MethodCall("unwrap", 4, 4)),
              Leave >>)

\* use {crate::infra::db::Pool, sqlx::query}; and a fn whose unwrap() stands
\* below an allow comment without reason.
ImportSource ==
    Source(ContentOf(<<DirLine(DirectiveNames, TRUE), CodeLine,
                       DirLine(DirectiveNames, FALSE), CodeLine>>),
           << Node(ItemUse(<<UseLeaf(<<"crate", "infra", "db", "Pool">>, 5),
                             UseLeaf(<<"sqlx", "query">>, 28)>>, 2)),
              Enter(Item("fn", NoAttrs)),
              Node(MethodCall("unwrap", 4, 8)),
              Leave >>)

FileKinds == {Unreadable, Unparsable, HandlerSource, ImportSource}

AbsPaths ==
    {Root \o p : p \in RelPaths \cup { <<"src", "lib.rs">>, <<"target", "gen.rs">> }}

\* What a path may hold; build output is generated source.
KindsAt(path) == IF should_exclude(path) THEN {HandlerSource} ELSE FileKinds

Entries ==
    UNION { {e \in [paths -> FileKinds] : \A p \in paths : e[p] \in KindsAt(p)} :
            paths \in {ps \in SUBSET AbsPaths : Cardinality(ps) <= MaxFiles} }

\* A project tree: its files, whether README.md exists, and whether a
\* directory cannot be read ("Io") when glob walks it.
Disks == {[entries |-> e, readme |-> r, glob |-> g] :
              e \in Entries, r \in BOOLEAN, g \in {"ok", "Io"}}

Configs ==
    { <<>> } \cup
    { n :> c : n \in {UNWRAP_NAME, "no-sqlx", README_NAME},
               c \in {RuleConfig("Some(false)", "None"), RuleConfig("None", "Info")} }

\* The rules in the order they were registered with the builder.
RegisteredRules(reversed, scope_order) ==
    IF reversed
    THEN << ScopeDepRule(scope_order), RestrictUseRule, HandlerComplexity("Warning"),
            NoPanicInLib(TRUE, "Error"), NoUnwrapExpect(TRUE, FALSE, "Error") >>
    ELSE << NoUnwrapExpect(TRUE, FALSE, "Error"), NoPanicInLib(TRUE, "Error"),
            HandlerComplexity("Warning"), RestrictUseRule, ScopeDepRule(scope_order) >>

LintResult_new == [violations |-> <<>>, files_checked |-> 0]

VisitIdle ==
    /\ v_rule = RestrictUseRule
    /\ v_ctx = FileContext_new(Root, <<>>, Root)
    /\ v_pc = "idle"
    /\ visitor = NewVisitor
    /\ v_last = NoNode
    /\ v_nsites = 0

-----------------------------------------------------------------------------
(* Specification Spec: runs of Analyzer::analyze over one project tree *)

Init ==
    /\ disk \in Disks
    /\ config \in Configs
    /\ fail_on_parse_error \in BOOLEAN
    /\ rules \in {RegisteredRules(r, o) : r \in BOOLEAN, o \in ScopeOrders}
    /\ project_rules = <<RequireReadme>>
    /\ pc = "start"
    /\ files = <<>>
    /\ idx = 0
    /\ result = LintResult_new
    /\ skipped = {}
    /\ err = "none"
    /\ runs = 0
    /\ prev_result = [err |-> "none", result |-> LintResult_new]
    /\ VisitIdle
    /\ CallIdle

\* analyze, up to the per-file loop: discover_files()?
Analyze_discover ==
    /\ pc = "start"
    /\ LET found == discover_files(disk)
       IN  IF found.ok
           THEN /\ files' = found.files
                /\ idx' = 1
                /\ pc' = "files"
                /\ err' = "none"
           ELSE /\ files' = <<>>
                /\ idx' = 0
                /\ pc' = "error"
                /\ err' = found.err
    /\ result' = LintResult_new
    /\ skipped' = {}
    /\ UNCHANGED <<config, fail_on_parse_error, rules, project_rules, disk, runs, prev_result>>

\* One iteration of the per-file loop.
Analyze_file ==
    /\ pc = "files"
    /\ idx <= Len(files)
    /\ LET path == files[idx]
           got == analyze_file(config, rules, path, disk.entries[path])
       IN  CASE got.ok ->
                  /\ result' = [violations |-> result.violations \o got.violations,
                                files_checked |-> result.files_checked + 1]
                  /\ UNCHANGED <<skipped, err>>
                  /\ pc' = "files"
                  /\ idx' = idx + 1
             [] ~got.ok /\ got.err = "Parse" /\ ~fail_on_parse_error ->
                  /\ skipped' = skipped \cup {path}
                  /\ UNCHANGED <<result, err>>
                  /\ pc' = "files"
                  /\ idx' = idx + 1
             [] OTHER ->
                  /\ err' = got.err
                  /\ pc' = "error"
                  /\ UNCHANGED <<result, skipped, idx>>
    /\ UNCHANGED <<config, fail_on_parse_error, rules, project_rules, disk, files,
                   runs, prev_result>>

\* analyze, after the per-file loop: the project rules and the final sort.
Analyze_finish ==
    /\ pc = "files"
    /\ idx > Len(files)
    /\ LET cargo == discover_cargo_files(disk)
           all == run_project_rules(config, project_rules, disk, result.violations, 1)
       IN  IF cargo.ok
           THEN /\ result' = [result EXCEPT !.violations = sort_by(all, <<>>, 1)]
                /\ pc' = "done"
                /\ err' = "none"
           ELSE /\ pc' = "error"
                /\ err' = cargo.err
                /\ UNCHANGED result
    /\ UNCHANGED <<config, fail_on_parse_error, rules, project_rules, disk, files, idx,
                   skipped, runs, prev_result>>

\* The same analysis is set up and run again: same configuration, files and
\* rule set, with a DeclarativeConfig built anew.
Run_again ==
    /\ pc \in {"done", "error"}
    /\ runs + 1 < MaxRuns
    /\ runs' = runs + 1
    /\ prev_result' = [err |-> err, result |-> IF pc = "done" THEN result ELSE LintResult_new]
    /\ \E o \in ScopeOrders :
          rules' = [k \in 1..Len(rules) |->
                       IF rules[k].kind = "scopedep" THEN ScopeDepRule(o) ELSE rules[k]]
    /\ pc' = "start"
    /\ files' = <<>>
    /\ idx' = 0
    /\ result' = LintResult_new
    /\ skipped' = {}
    /\ err' = "none"
    /\ UNCHANGED <<config, fail_on_parse_error, project_rules, disk>>

Next ==
    \/ Analyze_discover /\ UNCHANGED <<vvars, cvars>>
    \/ Analyze_file /\ UNCHANGED <<vvars, cvars>>
    \/ Analyze_finish /\ UNCHANGED <<vvars, cvars>>
    \/ Run_again /\ UNCHANGED <<vvars, cvars>>

Spec == Init /\ [][Next]_vars

-----------------------------------------------------------------------------
(* Properties of Analyzer::analyze (specification Spec) *)

Findings == result.violations

\* (file, line, column) of a is lexicographically at most that of b.
LocationLeq(a, b) ==
    \/ cmp_path(a.file, b.file) < 0
    \/ /\ a.file = b.file
       /\ (a.line < b.line \/ (a.line = b.line /\ a.column <= b.column))

\* C1: when analyze has returned successfully, each finding's (file, line,
\* column) is at most that of the finding after it.
C1_FindingsSorted ==
    pc = "done" =>
        \A i \in 1..(Len(Findings) - 1) : LocationLeq(Findings[i], Findings[i + 1])

\* Two files were checked by rules registered so that, in one file, a rule
\* run earlier reported a later line than a rule run after it.
C1_Witness ==
    /\ pc = "done"
    /\ result.files_checked = 2
    /\ rules[1].kind = "unwrap"
    /\ \E i, j \in 1..Len(Findings) :
          /\ i < j
          /\ Findings[i].file = Findings[j].file
          /\ Findings[i].rule = COMPLEXITY_NAME
          /\ Findings[j].rule = UNWRAP_NAME
    /\ \E i \in 1..Len(Findings) : Findings[i].rule = README_NAME

\* What a run of analyze returned.
Outcome == [err |-> err, result |-> IF pc = "done" THEN result ELSE LintResult_new]

\* C2: a second run of analyze over the same configuration, files and rule
\* set returns what the first run returned: the same findings in the same
\* sequence and the same files-checked count.
C2_RunsAgree ==
    (pc \in {"done", "error"} /\ runs >= 1) => Outcome = prev_result

\* C7: when the configuration sets rules.<R>.enabled = false, the Result
\* holds no finding whose rule name is R.
C7_DisabledRuleReportsNothing ==
    pc = "done" =>
        \A R \in DOMAIN config :
            config[R].enabled = "Some(false)" =>
                \A i \in 1..Len(Findings) : Findings[i].rule # R

\* C8: when the configuration sets rules.<R>.severity = X, every finding of
\* the Result whose rule name is R has severity X.
C8_SeverityOverrideApplies ==
    pc = "done" =>
        \A R \in DOMAIN config :
            config[R].severity # "None" =>
                \A i \in 1..Len(Findings) :
                    Findings[i].rule = R => Findings[i].severity = config[R].severity

KindOf(path) == disk.entries[path].kind

\* The files the per-file loop has dealt with.
Handled == IF pc \in {"files", "done"} THEN SubSeq(files, 1, idx - 1) ELSE <<>>

\* C10: a file that fails to parse is skipped in default mode (the loop goes
\* on, the file adds no finding and is not counted in files_checked); with
\* fail_on_parse_error the first parse failure aborts; a read error or a glob
\* error aborts in either mode.
C10_ParseAndIoErrors ==
    /\ pc \in {"files", "done"} =>
          /\ disk.glob = "ok"
          /\ \A k \in 1..Len(Handled) :
                /\ KindOf(Handled[k]) # "unreadable"
                /\ fail_on_parse_error => KindOf(Handled[k]) # "unparsable"
                /\ KindOf(Handled[k]) = "unparsable" =>
                      \A i \in 1..Len(Findings) :
                          Findings[i].file # strip_prefix(Handled[k], Root)
          /\ result.files_checked =
                Cardinality({k \in 1..Len(Handled) : KindOf(Handled[k]) = "source"})
    /\ pc = "done" => Len(Handled) = Len(files)
    /\ pc = "error" =>
          \/ err = "Io" /\ disk.glob # "ok"
          \/ err = "Io" /\ idx \in 1..Len(files) /\ KindOf(files[idx]) = "unreadable"
          \/ /\ err = "Parse" /\ fail_on_parse_error
             /\ idx \in 1..Len(files) /\ KindOf(files[idx]) = "unparsable"

\* In default mode the first file failed to parse and the analysis went on
\* to check the second and returned its findings.
C10_Witness ==
    /\ pc = "done"
    /\ ~fail_on_parse_error
    /\ Len(files) = 2
    /\ KindOf(files[1]) = "unparsable"
    /\ KindOf(files[2]) = "source"
    /\ result.files_checked = 1
    /\ \E i \in 1..Len(Findings) : Findings[i].file = strip_prefix(files[2], Root)

-----------------------------------------------------------------------------
(* Specification SpecMatch: one call of utils::paths::path_matches.  A use  *)
(* path and a use pattern are given as their `::`-separated segments;       *)
(* str::split never returns an empty list, so neither is empty.             *)

MaxLen == 3

Segments == {"a", "b"}
PatternSegments == Segments \cup {"*", "**"}

SeqsUpTo(S, n) == UNION {[1..k -> S] : k \in 1..n}

InitMatch ==
    /\ call \in {[fn |-> "path_matches", path |-> p, pattern |-> q] :
                    p \in SeqsUpTo(Segments, MaxLen),
                    q \in SeqsUpTo(PatternSegments, MaxLen)}
    /\ ret = <<>>
    /\ AnalyzerIdle
    /\ VisitIdle

Match_call ==
    /\ call.fn = "path_matches"
    /\ ret = <<>>
    /\ ret' = <<path_matches(call.path, call.pattern)>>
    /\ UNCHANGED <<call, avars, vvars>>

NextMatch == Match_call

SpecMatch == InitMatch /\ [][NextMatch]_vars

RECURSIVE SumTo(_, _)
SumTo(n, i) == IF i = 0 THEN 0 ELSE n[i] + SumTo(n, i - 1)

\* The ways of cutting the path into one run of segments per pattern
\* element: one segment for `*` and for a literal, which must equal it,
\* any run for `**`.
Covers(path, pattern) ==
    {n \in [1..Len(pattern) -> 0..Len(path)] :
        /\ SumTo(n, Len(pattern)) = Len(path)
        /\ \A i \in 1..Len(pattern) :
              pattern[i] # "**" =>
                  /\ n[i] = 1
                  /\ pattern[i] # "*" => path[SumTo(n, i - 1) + 1] = pattern[i]}

\* C12: a path matches a pattern iff the whole path can be cut into runs, one
\* per pattern element in order, where `*` takes exactly one segment, `**`
\* takes zero or more segments wherever it stands, and a literal takes one
\* identical segment.
C12_PatternSemantics ==
    (call.fn = "path_matches" /\ ret # <<>>) =>
        (ret[1] <=> Covers(call.path, call.pattern) # {})

\* `**` in front of further elements has taken two segments.
C12_Witness ==
    /\ call.fn = "path_matches"
    /\ ret = <<TRUE>>
    /\ call.pattern = <<"a", "**", "*">>
    /\ call.path = <<"a", "b", "a">>

-----------------------------------------------------------------------------
(* Specification SpecDecl: DeclarativeConfig::new on the parts of a         *)
(* declarative configuration, then create_rules on the validated aggregate. *)

MaxRules == 2

Named(name) == [t |-> "Named", name |-> name]
Inline(patterns) == [t |-> "Inline", patterns |-> patterns]

Scope_new(name, patterns) == [name |-> name, patterns |-> patterns]

UnknownScope(context, name) == [context |-> context, name |-> name]

\* scopes.into_iter().map(|s| (s.name.clone(), s)).collect(): of two scopes
\* of one name the later one stays.
scope_map_collect(scopes) ==
    LET names == {scopes[i].name : i \in 1..Len(scopes)}
        Last(n) == CHOOSE i \in 1..Len(scopes) :
                       /\ scopes[i].name = n
                       /\ \A j \in (i + 1)..Len(scopes) : scopes[j].name # n
    IN  [n \in names |-> scopes[Last(n)]]

\* for rule in &restrict_uses / &require_uses
RECURSIVE validate_scope_refs(_, _, _, _, _)
validate_scope_refs(kind, uses, scope_map, errors, i) ==
    IF i > Len(uses) THEN errors
    ELSE LET rule == uses[i]
             next == IF rule.scope.t = "Named" /\ rule.scope.name \notin DOMAIN scope_map
                     THEN Append(errors, UnknownScope(kind \o " '" \o rule.name \o "'",
                                                      rule.scope.name))
                     ELSE errors
         IN  validate_scope_refs(kind, uses, scope_map, next, i + 1)

\* for target in &dep.to
RECURSIVE validate_dep_targets(_, _, _, _)
validate_dep_targets(dep, scope_map, errors, j) ==
    IF j > Len(dep.to) THEN errors
    ELSE LET next == IF dep.to[j] \notin DOMAIN scope_map
                     THEN Append(errors,
                              UnknownScope("deny-scope-dep.to (from '" \o dep.from \o "')",
                                           dep.to[j]))
                     ELSE errors
         IN  validate_dep_targets(dep, scope_map, next, j + 1)

\* for dep in &scope_deps
RECURSIVE validate_scope_deps(_, _, _, _)
validate_scope_deps(scope_deps, scope_map, errors, k) ==
    IF k > Len(scope_deps) THEN errors
    ELSE LET dep == scope_deps[k]
             first == IF dep.from \notin DOMAIN scope_map
                      THEN Append(errors, UnknownScope("deny-scope-dep.from", dep.from))
                      ELSE errors
         IN  validate_scope_deps(scope_deps, scope_map,
                                 validate_dep_targets(dep, scope_map, first, 1), k + 1)

Ok(value) == [ok |-> TRUE, value |-> value]
Err(errors) == [ok |-> FALSE, errors |-> errors]

\* A variant of DeclarativeConfig::new that stops at the first error.
DeclarativeConfig_new_first_error(scopes, restrict_uses, require_uses, scope_deps) ==
    LET scope_map == scope_map_collect(scopes)
        e1 == validate_scope_refs("restrict-use", restrict_uses, scope_map, <<>>, 1)
        e2 == validate_scope_refs("require-use", require_uses, scope_map, e1, 1)
        errors == validate_scope_deps(scope_deps, scope_map, e2, 1)
    IN  IF errors = <<>>
        THEN Ok([scopes |-> scope_map, restrict_uses |-> restrict_uses,
                 require_uses |-> require_uses, scope_deps |-> scope_deps])
        ELSE Err(<<errors[1]>>)

DeclarativeConfig_new(scopes, restrict_uses, require_uses, scope_deps) ==
    LET scope_map == scope_map_collect(scopes)
        e1 == validate_scope_refs("restrict-use", restrict_uses, scope_map, <<>>, 1)
        e2 == validate_scope_refs("require-use", require_uses, scope_map, e1, 1)
        errors == validate_scope_deps(scope_deps, scope_map, e2, 1)
    IN  IF errors = <<>>
        THEN Ok([scopes |-> scope_map, restrict_uses |-> restrict_uses,
                 require_uses |-> require_uses, scope_deps |-> scope_deps])
        ELSE Err(errors)

DeclarativeConfig_is_empty(cfg) ==
    cfg.restrict_uses = <<>> /\ cfg.require_uses = <<>> /\ cfg.scope_deps = <<>>

RestrictUseRule_new(cfg) == [kind |-> "restrict", config |-> cfg]
RequireUseRule_new(cfg) == [kind |-> "require", config |-> cfg]
ScopeDepRule_new(cfg) == [kind |-> "scopedep", config |-> cfg]

\* A variant of create_rules that pushes the scope-dep rule unconditionally.
create_rules_scope_dep_always(cfg) ==
    IF DeclarativeConfig_is_empty(cfg) THEN <<>>
    ELSE (IF cfg.restrict_uses # <<>> THEN <<RestrictUseRule_new(cfg)>> ELSE <<>>)
         \o (IF cfg.require_uses # <<>> THEN <<RequireUseRule_new(cfg)>> ELSE <<>>)
         \o <<ScopeDepRule_new(cfg)>>

create_rules(cfg) ==
    IF DeclarativeConfig_is_empty(cfg) THEN <<>>
    ELSE (IF cfg.restrict_uses # <<>> THEN <<RestrictUseRule_new(cfg)>> ELSE <<>>)
         \o (IF cfg.require_uses # <<>> THEN <<RequireUseRule_new(cfg)>> ELSE <<>>)
         \o (IF cfg.scope_deps # <<>> THEN <<ScopeDepRule_new(cfg)>> ELSE <<>>)

\* The parts a configuration file may declare.  "ghost" is a scope name no
\* [[scopes]] entry defines.
ScopeLists ==
    { <<>>,
      <<Scope_new("domain", << <<"src", "domain">> >>)>>,
      <<Scope_new("domain", << <<"src", "domain">> >>),
        Scope_new("infra", << <<"src", "infra">> >>)>> }

RuleLists(names, refs) ==
    UNION {{[i \in 1..k |-> [name |-> names[i], scope |-> f[i]]] : f \in [1..k -> refs]} :
              k \in 0..Len(names)}

RuleNames == [i \in 1..MaxRules |-> IF i = 1 THEN "no-sqlx" ELSE "no-fs"]

RestrictUseLists ==
    RuleLists(RuleNames, {Named("domain"), Named("ghost"), Inline(<< <<"src">> >>)})

RequireUseLists == RuleLists(<<"prefer-tracing">>, {Named("infra"), Named("ghost")})

ScopeDepLists ==
    {<<>>} \cup {<<[from |-> f, to |-> t]>> :
                    f \in {"domain", "ghost"},
                    t \in {<<"infra">>, <<"ghost", "infra">>, <<"ghost", "phantom">>}}

InitDecl ==
    /\ call \in {[fn |-> "DeclarativeConfig::new", scopes |-> s, restrict_uses |-> r,
                  require_uses |-> q, scope_deps |-> d] :
                    s \in ScopeLists, r \in RestrictUseLists,
                    q \in RequireUseLists, d \in ScopeDepLists}
    /\ ret = <<>>
    /\ AnalyzerIdle
    /\ VisitIdle

Decl_new ==
    /\ call.fn = "DeclarativeConfig::new"
    /\ ret = <<>>
    /\ ret' = <<DeclarativeConfig_new(call.scopes, call.restrict_uses,
                                      call.require_uses, call.scope_deps)>>
    /\ UNCHANGED <<call, avars, vvars>>

\* loader::load hands the validated aggregate on; create_rules makes the rules.
Decl_create_rules ==
    /\ call.fn = "DeclarativeConfig::new"
    /\ Len(ret) = 1
    /\ ret[1].ok
    /\ ret' = Append(ret, create_rules(ret[1].value))
    /\ UNCHANGED <<call, avars, vvars>>

NextDecl ==
    \/ Decl_new
    \/ Decl_create_rules

SpecDecl == InitDecl /\ [][NextDecl]_vars

\* The places of the configuration that name a scope, and the name each holds.
ScopeReferences ==
    {<<"restrict-use", i, 0>> : i \in {i \in 1..Len(call.restrict_uses) :
                                          call.restrict_uses[i].scope.t = "Named"}}
    \cup {<<"require-use", i, 0>> : i \in {i \in 1..Len(call.require_uses) :
                                              call.require_uses[i].scope.t = "Named"}}
    \cup {<<"from", k, 0>> : k \in 1..Len(call.scope_deps)}
    \cup UNION {{<<"to", k, j>> : j \in 1..Len(call.scope_deps[k].to)} :
                   k \in 1..Len(call.scope_deps)}

ReferencedName(ref) ==
    CASE ref[1] = "restrict-use" -> call.restrict_uses[ref[2]].scope.name
      [] ref[1] = "require-use" -> call.require_uses[ref[2]].scope.name
      [] ref[1] = "from" -> call.scope_deps[ref[2]].from
      [] OTHER -> call.scope_deps[ref[2]].to[ref[3]]

DefinedScopes == {call.scopes[i].name : i \in 1..Len(call.scopes)}

Unresolved == {ref \in ScopeReferences : ReferencedName(ref) \notin DefinedScopes}

\* C11: DeclarativeConfig::new returns the aggregate, holding the rules it was
\* given, exactly when every named-scope reference and every scope-dep
\* endpoint names a defined scope; otherwise it returns one error per
\* unresolved reference, all of them at once.
C11_AllCrossReferenceErrors ==
    (call.fn = "DeclarativeConfig::new" /\ ret # <<>>) =>
        LET r == ret[1]
        IN  /\ r.ok <=> Unresolved = {}
            /\ r.ok => /\ DOMAIN r.value.scopes = DefinedScopes
                       /\ r.value.restrict_uses = call.restrict_uses
                       /\ r.value.require_uses = call.require_uses
                       /\ r.value.scope_deps = call.scope_deps
            /\ ~r.ok =>
                  /\ Len(r.errors) = Cardinality(Unresolved)
                  /\ \A n \in {ReferencedName(u) : u \in Unresolved} :
                        Cardinality({i \in 1..Len(r.errors) : r.errors[i].name = n})
                            = Cardinality({u \in Unresolved : ReferencedName(u) = n})

\* Unresolved references of all three kinds of rule are reported together.
C11_Witness ==
    /\ call.fn = "DeclarativeConfig::new"
    /\ ret # <<>>
    /\ ~ret[1].ok
    /\ Len(ret[1].errors) >= 4
    /\ \E u, w, x \in Unresolved :
          u[1] = "restrict-use" /\ w[1] = "require-use" /\ x[1] = "to"

KindsOf(rule_list) == {rule_list[i].kind : i \in 1..Len(rule_list)}

\* C17: create_rules makes a restrict-use rule iff the configuration has a
\* restrict-use entry, a require-use rule iff it has a require-use entry, a
\* scope-dep rule iff it has a scope-dep entry, each at most once, and no
\* rule at all for an empty configuration.
C17_RulesPerKindOfEntry ==
    (call.fn = "DeclarativeConfig::new" /\ Len(ret) = 2) =>
        LET made == ret[2]
        IN  /\ "restrict" \in KindsOf(made) <=> call.restrict_uses # <<>>
            /\ "require" \in KindsOf(made) <=> call.require_uses # <<>>
            /\ "scopedep" \in KindsOf(made) <=> call.scope_deps # <<>>
            /\ Len(made) = Cardinality(KindsOf(made))
            /\ KindsOf(made) \subseteq {"restrict", "require", "scopedep"}

\* A configuration with restrict-use entries only made one rule.
C17_Witness ==
    /\ call.fn = "DeclarativeConfig::new"
    /\ Len(ret) = 2
    /\ call.restrict_uses # <<>>
    /\ call.require_uses = <<>>
    /\ call.scope_deps = <<>>
    /\ Len(ret[2]) = 1

-----------------------------------------------------------------------------
(* syn::UseTree and expand_use_tree (declarative/rules.rs).  Every ident    *)
(* and the glob token of a tree carry the 0-based column of their span.     *)

UsePath(ident, col0, tree) == [t |-> "Path", ident |-> ident, col0 |-> col0, tree |-> tree]
UseName(ident, col0) == [t |-> "Name", ident |-> ident, col0 |-> col0]
UseRename(ident, rename, col0) ==
    [t |-> "Rename", ident |-> ident, rename |-> rename, col0 |-> col0]
UseGlob(col0) == [t |-> "Glob", col0 |-> col0]
UseGroup(items) == [t |-> "Group", items |-> items]

\* A variant of expand_use_tree that reports a renamed leaf under its new name.
RECURSIVE expand_use_tree_renamed(_, _)
expand_use_tree_renamed(tree, prefix) ==
    LET RECURSIVE flat_map(_, _)
        flat_map(items, k) ==
            IF k > Len(items) THEN <<>>
            ELSE expand_use_tree_renamed(items[k], prefix) \o flat_map(items, k + 1)
    IN  CASE tree.t = "Path" -> expand_use_tree_renamed(tree.tree, prefix \o <<tree.ident>>)
          [] tree.t = "Name" -> <<UseLeaf(prefix \o <<tree.ident>>, tree.col0)>>
          [] tree.t = "Rename" -> <<UseLeaf(prefix \o <<tree.rename>>, tree.col0)>>
          [] tree.t = "Glob" -> <<UseLeaf(prefix \o <<"*">>, tree.col0)>>
          [] tree.t = "Group" -> flat_map(tree.items, 1)

\* The prefix is kept as its segments; it is the empty string iff there is
\* none, and `format!("{prefix}::{}", ident)` appends one segment.
RECURSIVE expand_use_tree(_, _)
expand_use_tree(tree, prefix) ==
    LET RECURSIVE flat_map(_, _)
        flat_map(items, k) ==
            IF k > Len(items) THEN <<>>
            ELSE expand_use_tree(items[k], prefix) \o flat_map(items, k + 1)
    IN  CASE tree.t = "Path" -> expand_use_tree(tree.tree, prefix \o <<tree.ident>>)
          [] tree.t = "Name" -> <<UseLeaf(prefix \o <<tree.ident>>, tree.col0)>>
          [] tree.t = "Rename" -> <<UseLeaf(prefix \o <<tree.ident>>, tree.col0)>>
          [] tree.t = "Glob" -> <<UseLeaf(prefix \o <<"*">>, tree.col0)>>
          [] tree.t = "Group" -> flat_map(tree.items, 1)

\* syn::parse_file on `use <tree>;` written on one line, one space after
\* `use`, after `,` and around `as`: the tree with the column of each token.
\* The shape of a tree is the tree without its columns.
RECURSIVE parse_use_tree(_, _)
RECURSIVE parse_use_items(_, _, _)
RECURSIVE use_tree_width(_)
RECURSIVE use_items_width(_, _)

use_tree_width(shape) ==
    CASE shape.t = "Path" -> Len(shape.ident) + 2 + use_tree_width(shape.tree)
      [] shape.t = "Name" -> Len(shape.ident)
      [] shape.t = "Rename" -> Len(shape.ident) + 4 + Len(shape.rename)
      [] shape.t = "Glob" -> 1
      [] shape.t = "Group" -> 2 + use_items_width(shape.items, 1)

use_items_width(items, k) ==
    IF k > Len(items) THEN 0
    ELSE use_tree_width(items[k]) + (IF k < Len(items) THEN 2 ELSE 0)
         + use_items_width(items, k + 1)

parse_use_tree(shape, col) ==
    CASE shape.t = "Path" ->
             UsePath(shape.ident, col, parse_use_tree(shape.tree, col + Len(shape.ident) + 2))
      [] shape.t = "Name" -> UseName(shape.ident, col)
      [] shape.t = "Rename" -> UseRename(shape.ident, shape.rename, col)
      [] shape.t = "Glob" -> UseGlob(col)
      [] shape.t = "Group" -> UseGroup(parse_use_items(shape.items, 1, col + 1))

parse_use_items(items, k, col) ==
    IF k > Len(items) THEN <<>>
    ELSE <<parse_use_tree(items[k], col)>>
         \o parse_use_items(items, k + 1, col + use_tree_width(items[k]) + 2)

\* `use ` takes the columns 0..3.
parse_item_use(shape, line) == [tree |-> parse_use_tree(shape, 4), line |-> line]

-----------------------------------------------------------------------------
(* Specification SpecUse: a declarative rule checks a file that holds one   *)
(* `use` item.                                                              *)

MaxUseDepth == 3

NameShape(ident) == [t |-> "Name", ident |-> ident]
RenameShape(ident, rename) == [t |-> "Rename", ident |-> ident, rename |-> rename]
GlobShape == [t |-> "Glob"]
PathShape(ident, tree) == [t |-> "Path", ident |-> ident, tree |-> tree]
GroupShape(items) == [t |-> "Group", items |-> items]

LeafShapes == {NameShape("Pool"), NameShape("query"), RenameShape("Pool", "P"), GlobShape}

RECURSIVE SubShapes(_)
SubShapes(d) ==
    IF d = 0 THEN LeafShapes
    ELSE LET below == SubShapes(d - 1)
         IN  below
             \cup {PathShape(m, s) : m \in {"infra", "domain", "db"}, s \in below}
             \cup {GroupShape(<<s, l>>) : s \in below, l \in {NameShape("query"), GlobShape}}
             \cup {GroupShape(<<>>)}

UseShapes ==
    {NameShape("sqlx")}
    \cup {PathShape(h, s) : h \in {"sqlx", "crate"}, s \in SubShapes(MaxUseDepth - 1)}

UseFiles ==
    { <<"src", "domain", "service.rs">>,
      <<"src", "infra", "db", "repo.rs">>,
      <<"src", "main.rs">> }

UseRules == {RestrictUseRule} \cup {ScopeDepRule(o) : o \in ScopeOrders}

InitUse ==
    /\ call \in {[fn |-> "Rule::check", rule |-> r, file |-> f, shape |-> s, line |-> l] :
                    r \in UseRules, f \in UseFiles, s \in UseShapes, l \in {1, 2}}
    /\ ret = <<>>
    /\ AnalyzerIdle
    /\ VisitIdle

\* visit_item_use: let resolved = expand_use_tree(&node.tree, "")
Use_expand ==
    /\ call.fn = "Rule::check"
    /\ ret = <<>>
    /\ ret' = <<expand_use_tree(parse_item_use(call.shape, call.line).tree, <<>>)>>
    /\ UNCHANGED <<call, avars, vvars>>

\* Rule::check on the file whose only item is the `use`.
Use_check ==
    /\ call.fn = "Rule::check"
    /\ Len(ret) = 1
    /\ ret' = Append(ret, Rule_check(call.rule,
                                     FileContext_new(Root \o call.file, <<>>, Root),
                                     <<Node(ItemUse(ret[1], call.line))>>))
    /\ UNCHANGED <<call, avars, vvars>>

NextUse ==
    \/ Use_expand
    \/ Use_check

SpecUse == InitUse /\ [][NextUse]_vars

\* The fully-qualified paths of the leaves of a shape, built from the leaves
\* upwards, in the order the leaves are written.
RECURSIVE LeafPathSeq(_)
LeafPathSeq(shape) ==
    LET RECURSIVE Concat(_, _)
        Concat(items, k) ==
            IF k > Len(items) THEN <<>> ELSE LeafPathSeq(items[k]) \o Concat(items, k + 1)
    IN  CASE shape.t = "Name" -> << <<shape.ident>> >>
          [] shape.t = "Rename" -> << <<shape.ident>> >>
          [] shape.t = "Glob" -> << <<"*">> >>
          [] shape.t = "Path" ->
                 LET sub == LeafPathSeq(shape.tree)
                 IN  [i \in 1..Len(sub) |-> <<shape.ident>> \o sub[i]]
          [] shape.t = "Group" -> Concat(shape.items, 1)

GroupedImport ==
    PathShape("sqlx", GroupShape(<<PathShape("infra", NameShape("Pool")), NameShape("query")>>))

\* C13: expanding an import tree yields exactly one fully-qualified path per
\* leaf, the enclosing prefixes and the leaf joined by `::`; groups, nested
\* groups included, flatten completely; a glob leaf yields one path ending in
\* `*`; a renamed leaf yields the path under its original name; and
\* `a::{b::c, d}` yields exactly `a::b::c` and `a::d`.
C13_ExpandUseTree ==
    (call.fn = "Rule::check" /\ ret # <<>>) =>
        LET resolved == ret[1]
        IN  /\ [i \in 1..Len(resolved) |-> resolved[i].path] = LeafPathSeq(call.shape)
            /\ call.shape = GroupedImport =>
                  /\ Len(resolved) = 2
                  /\ {UsePathText(resolved[i].path) : i \in 1..Len(resolved)}
                        = {"sqlx::infra::Pool", "sqlx::query"}

\* A group nested in a group, holding a renamed leaf and a glob, was expanded.
C13_Witness ==
    /\ call.fn = "Rule::check"
    /\ ret # <<>>
    /\ call.shape = PathShape("crate", GroupShape(<<
                        GroupShape(<<RenameShape("Pool", "P"), GlobShape>>),
                        NameShape("query")>>))
    /\ Len(ret[1]) = 3

UseFindings == ret[2]

\* The leaves a restrict-use entry denies, by the pattern semantics of C12.
DeniedBy(r, leaf) == \E k \in 1..Len(r.deny) : Covers(leaf.path, r.deny[k]) # {}

InScopeOf(r) == Scope_contains(DeclScopes[r.scope], call.file)

\* C14: for a file inside a restrict-use entry's scope the rule emits exactly
\* one ALD001 finding, at the import's line, per expanded leaf that matches a
\* deny pattern of the entry, and nothing else; for a file outside the scope,
\* or an import with no denied leaf, it emits nothing.
C14_OneFindingPerDeniedLeaf ==
    (call.fn = "Rule::check" /\ call.rule.kind = "restrict" /\ Len(ret) = 2) =>
        \A e \in 1..Len(DeclRestrictUses) :
            LET r == DeclRestrictUses[e]
                leaves == ret[1]
                denied == {i \in 1..Len(leaves) : InScopeOf(r) /\ DeniedBy(r, leaves[i])}
                mine == {j \in 1..Len(UseFindings) : UseFindings[j].rule = r.name}
            IN  /\ Cardinality(mine) = Cardinality(denied)
                /\ \A i \in denied :
                      Cardinality({j \in mine :
                          /\ UseFindings[j].code = RESTRICT_USE_CODE
                          /\ UseFindings[j].line = call.line
                          /\ UseFindings[j].column = leaves[i].col0 + 1}) = 1

\* `use sqlx::{Pool, query};` in a file of the scope gave two findings on the
\* import's line.
C14_Witness ==
    /\ call.fn = "Rule::check"
    /\ call.rule.kind = "restrict"
    /\ Len(ret) = 2
    /\ call.file = <<"src", "domain", "service.rs">>
    /\ call.shape = PathShape("sqlx", GroupShape(<<NameShape("Pool"), NameShape("query")>>))
    /\ Len(UseFindings) = 2
    /\ UseFindings[1].line = UseFindings[2].line

\* The column of the first segment of the imported path, 0-based.
PathHeadColumn == parse_item_use(call.shape, call.line).tree.col0

\* C15: a restrict-use finding is located at the 1-indexed line of the import
\* and at the column of the head (first segment) of the denied path, so that
\* `use sqlx::query;` on line 1 is reported at 1:5.
C15_ColumnAtPathHead ==
    (call.fn = "Rule::check" /\ call.rule.kind = "restrict" /\ Len(ret) = 2) =>
        \A j \in 1..Len(UseFindings) :
            /\ UseFindings[j].file = call.file
            /\ UseFindings[j].line = call.line
            /\ UseFindings[j].column = PathHeadColumn + 1

FileScopes == {n \in ScopeNames : Scope_contains(DeclScopes[n], call.file)}

\* The scopes of the candidate file src/<segments after crate>.rs.
TargetScopes(path) ==
    {n \in ScopeNames : Scope_contains(DeclScopes[n], <<"src">> \o Tail(path))}

DenyListFor(F) ==
    UNION {{DeclScopeDeps[k].to[t] : t \in 1..Len(DeclScopeDeps[k].to)} :
              k \in {k \in 1..Len(DeclScopeDeps) : DeclScopeDeps[k].from = F}}

CrateInternal(path) == Len(path) >= 2 /\ path[1] = "crate"

Flagged(leaf) ==
    \E j \in 1..Len(UseFindings) :
        /\ UseFindings[j].code = SCOPE_DEP_CODE
        /\ UseFindings[j].line = call.line
        /\ UseFindings[j].column = leaf.col0 + 1

\* C16: the scope-dep rule flags an import in a file of scope F iff the
\* import is crate-internal and its candidate target file lies in a scope of
\* the deny-list for F; an import of an external crate, an import whose
\* target lies in the scopes of the file itself, and an import in the reverse
\* direction are never flagged, and nothing but an import is flagged.
C16_ScopeDepFlagsDeniedTargets ==
    (call.fn = "Rule::check" /\ call.rule.kind = "scopedep" /\ Len(ret) = 2) =>
        LET leaves == ret[1]
        IN  /\ \A i \in 1..Len(leaves) :
                  LET path == leaves[i].path
                  IN  /\ Flagged(leaves[i]) <=>
                            /\ CrateInternal(path)
                            /\ \E F \in FileScopes : TargetScopes(path) \cap DenyListFor(F) # {}
                      /\ ~CrateInternal(path) => ~Flagged(leaves[i])
                      /\ (CrateInternal(path) /\ TargetScopes(path) \subseteq FileScopes)
                            => ~Flagged(leaves[i])
                      /\ (CrateInternal(path)
                            /\ \E T \in TargetScopes(path) : FileScopes \cap DenyListFor(T) # {})
                            => ~Flagged(leaves[i])
            /\ \A j \in 1..Len(UseFindings) :
                  \E i \in 1..Len(leaves) :
                      UseFindings[j].column = leaves[i].col0 + 1

\* Of the two leaves of one import in a domain file, the one into infra was
\* flagged and the one into domain was not.
C16_Witness ==
    /\ call.fn = "Rule::check"
    /\ call.rule.kind = "scopedep"
    /\ Len(ret) = 2
    /\ call.file = <<"src", "domain", "service.rs">>
    /\ \E i, k \in 1..Len(ret[1]) :
          /\ Flagged(ret[1][i])
          /\ ret[1][i].path[2] = "infra"
          /\ ~Flagged(ret[1][k])
          /\ CrateInternal(ret[1][k].path)

-----------------------------------------------------------------------------
(* arch-lint-ts: layer.rs and engine.rs.  A package prefix and a qualified  *)
(* name are strings, kept as the sequences of their characters; a layer     *)
(* name is only ever compared, and is kept whole.                           *)

None == <<>>
Some(x) == <<x>>

LayerDef(name, packages) == [name |-> name, packages |-> packages]

\* for layer in &config.layers { for pkg in &layer.packages { map.push(..) } }
RECURSIVE push_packages(_, _, _)
push_packages(layer, map, j) ==
    IF j > Len(layer.packages) THEN map
    ELSE push_packages(layer, Append(map, <<layer.packages[j], layer.name>>), j + 1)

RECURSIVE push_layers(_, _, _)
push_layers(layers, map, i) ==
    IF i > Len(layers) THEN map
    ELSE push_layers(layers, push_packages(layers[i], map, 1), i + 1)

\* map.sort_by(|a, b| b.0.len().cmp(&a.0.len())): a stable sort, the longer
\* prefix first.
RECURSIVE sort_by_len_desc(_, _, _)
sort_by_len_desc(map, sorted, i) ==
    IF i > Len(map) THEN sorted
    ELSE LET e == map[i]
             before == {k \in 1..Len(sorted) : Len(sorted[k][1]) >= Len(e[1])}
             at == Cardinality(before)
         IN  sort_by_len_desc(map,
                 SubSeq(sorted, 1, at) \o <<e>> \o SubSeq(sorted, at + 1, Len(sorted)),
                 i + 1)

\* A variant of LayerResolver::new that keeps the declaration order.
LayerResolver_new_unsorted(cfg) == [map |-> push_layers(cfg.layers, <<>>, 1)]

LayerResolver_new(cfg) ==
    [map |-> sort_by_len_desc(push_layers(cfg.layers, <<>>, 1), <<>>, 1)]

starts_with(s, prefix) == Len(prefix) <= Len(s) /\ SubSeq(s, 1, Len(prefix)) = prefix

\* A variant of LayerResolver::resolve that matches any textual prefix.
RECURSIVE LayerResolver_resolve_textual(_, _, _)
LayerResolver_resolve_textual(resolver, qualified_name, k) ==
    IF k > Len(resolver.map) THEN None
    ELSE LET prefix == resolver.map[k][1]
             layer_name == resolver.map[k][2]
         IN  IF qualified_name = prefix \/ starts_with(qualified_name, prefix)
             THEN Some(layer_name)
             ELSE LayerResolver_resolve_textual(resolver, qualified_name, k + 1)

\* for (prefix, layer_name) in &self.map, from entry k on
RECURSIVE LayerResolver_resolve(_, _, _)
LayerResolver_resolve(resolver, qualified_name, k) ==
    IF k > Len(resolver.map) THEN None
    ELSE LET prefix == resolver.map[k][1]
             layer_name == resolver.map[k][2]
         IN  IF qualified_name = prefix \/ starts_with(qualified_name, Append(prefix, "."))
             THEN Some(layer_name)
             ELSE LayerResolver_resolve(resolver, qualified_name, k + 1)

ArchRuleEngine_new(cfg) == [config |-> cfg, resolver |-> LayerResolver_new(cfg)]

LAYER_CODE == "LAYER001"
LAYER_NAME == "layer-dependency"

ImportInfo(line, column, path) == [line |-> line, column |-> column, path |-> path]

\* for imp in &analysis.imports
RECURSIVE check_imports(_, _, _, _, _, _)
check_imports(engine, analysis, from_layer, allowed, violations, i) ==
    IF i > Len(analysis.imports) THEN violations
    ELSE LET imp == analysis.imports[i]
             to_layer == LayerResolver_resolve(engine.resolver, imp.path, 1)
             next ==
                 IF to_layer = None THEN violations
                 ELSE IF to_layer[1] = from_layer THEN violations
                 ELSE IF ~(\E a \in 1..Len(allowed) : allowed[a] = to_layer[1])
                 THEN Append(violations,
                          Violation(LAYER_CODE, LAYER_NAME, "Error",
                                    Location(analysis.file_path, imp.line, imp.column + 1),
                                    <<from_layer, " -> ", to_layer[1],
                                      " dependency not allowed">>))
                 ELSE violations
         IN  check_imports(engine, analysis, from_layer, allowed, next, i + 1)

\* A variant of the loop over the imports without the same-layer skip.
RECURSIVE check_imports_no_same_layer_skip(_, _, _, _, _, _)
check_imports_no_same_layer_skip(engine, analysis, from_layer, allowed, violations, i) ==
    IF i > Len(analysis.imports) THEN violations
    ELSE LET imp == analysis.imports[i]
             to_layer == LayerResolver_resolve(engine.resolver, imp.path, 1)
             next ==
                 IF to_layer = None THEN violations
                 ELSE IF ~(\E a \in 1..Len(allowed) : allowed[a] = to_layer[1])
                 THEN Append(violations,
                          Violation(LAYER_CODE, LAYER_NAME, "Error",
                                    Location(analysis.file_path, imp.line, imp.column + 1),
                                    <<from_layer, " -> ", to_layer[1],
                                      " dependency not allowed">>))
                 ELSE violations
         IN  check_imports_no_same_layer_skip(engine, analysis, from_layer, allowed,
                                              next, i + 1)

\* A variant of check_layer_deps that flags same-layer imports too.
check_layer_deps_same_layer(engine, analysis) ==
    IF analysis.package = None THEN <<>>
    ELSE LET from_layer == LayerResolver_resolve(engine.resolver, analysis.package[1].path, 1)
         IN  IF from_layer = None THEN <<>>
             ELSE LET allowed == IF from_layer[1] \in DOMAIN engine.config.dependencies
                                 THEN engine.config.dependencies[from_layer[1]]
                                 ELSE <<>>
                  IN  check_imports_no_same_layer_skip(engine, analysis, from_layer[1],
                                                       allowed, <<>>, 1)

check_layer_deps(engine, analysis) ==
    IF analysis.package = None THEN <<>>
    ELSE LET from_layer == LayerResolver_resolve(engine.resolver, analysis.package[1].path, 1)
         IN  IF from_layer = None THEN <<>>
             ELSE LET allowed == IF from_layer[1] \in DOMAIN engine.config.dependencies
                                 THEN engine.config.dependencies[from_layer[1]]
                                 ELSE <<>>
                  IN  check_imports(engine, analysis, from_layer[1], allowed, <<>>, 1)

-----------------------------------------------------------------------------
(* Specification SpecLayer: ArchRuleEngine::new on a configuration, then    *)
(* check_layer_deps on the analysis of one file.                            *)

MaxNameLen == 5
MaxImports == 2

Chars == {"a", "b", "."}

\* A dotted name: no empty segment.
WellFormed(s) ==
    /\ s[1] # "."
    /\ s[Len(s)] # "."
    /\ \A i \in 1..(Len(s) - 1) : ~(s[i] = "." /\ s[i + 1] = ".")

QualifiedNames ==
    {s \in SeqsUpTo(Chars, MaxNameLen) : WellFormed(s) /\ (s[1] = "a" \/ Len(s) = 1)}

\* The package prefixes a configuration may register: `a`, `a.b`, `a.b.a`.
Prefixes == << <<"a">>, <<"a", ".", "b">>, <<"a", ".", "b", ".", "a">> >>

LayerNames == <<"domain", "infra">>

Reverse(s) == [i \in 1..Len(s) |-> s[Len(s) + 1 - i]]

\* The layers that register the prefixes as g says, declared in the order of
\* LayerNames and Prefixes, or both the other way round.
LayersOf(g, reversed) ==
    LET Pk(l) == SelectSeq(Prefixes, LAMBDA p : g[p] = l)
        fwd == [i \in 1..Len(LayerNames) |-> LayerDef(LayerNames[i], Pk(LayerNames[i]))]
    IN  IF reversed
        THEN Reverse([i \in 1..Len(fwd) |-> LayerDef(fwd[i].name, Reverse(fwd[i].packages))])
        ELSE fwd

PrefixSet == {Prefixes[i] : i \in 1..Len(Prefixes)}

DependencyMaps ==
    { [l \in {"domain", "infra"} |-> IF l = "infra" THEN <<"domain">> ELSE <<>>],
      [l \in {"domain"} |-> <<"infra">>] }

ArchConfigs ==
    {[layers |-> LayersOf(g, r), dependencies |-> d] :
        g \in [PrefixSet -> {"domain", "infra", "-"}], r \in BOOLEAN, d \in DependencyMaps}

ImportNames == { <<"a", ".", "a">>, <<"a", ".", "b", ".", "b">>, <<"b">> }

\* Import i stands on line i + 1, as the package stands on line 1.
ImportLists ==
    UNION {{[i \in 1..k |-> ImportInfo(i + 1, 0, f[i])] : f \in [1..k -> ImportNames]} :
              k \in 0..MaxImports}

Packages == {None} \cup {Some([line |-> 1, path |-> n]) : n \in QualifiedNames}

FileAnalyses ==
    {[file_path |-> <<"test.kt">>, package |-> p, imports |-> i] :
        p \in Packages, i \in ImportLists}

InitLayer ==
    /\ call \in {[fn |-> "ArchRuleEngine::check", config |-> c, analysis |-> a] :
                    c \in ArchConfigs, a \in FileAnalyses}
    /\ ret = <<>>
    /\ AnalyzerIdle
    /\ VisitIdle

Layer_new ==
    /\ call.fn = "ArchRuleEngine::check"
    /\ ret = <<>>
    /\ ret' = <<ArchRuleEngine_new(call.config)>>
    /\ UNCHANGED <<call, avars, vvars>>

\* check_layer_deps: the layer of the file's package
Layer_resolve ==
    /\ call.fn = "ArchRuleEngine::check"
    /\ Len(ret) = 1
    /\ call.analysis.package # None
    /\ ret' = Append(ret, LayerResolver_resolve(ret[1].resolver,
                                                call.analysis.package[1].path, 1))
    /\ UNCHANGED <<call, avars, vvars>>

\* check_layer_deps as a whole
Layer_check ==
    /\ call.fn = "ArchRuleEngine::check"
    /\ \/ Len(ret) = 2
       \/ Len(ret) = 1 /\ call.analysis.package = None
    /\ ret' = IF Len(ret) = 1
              THEN ret \o <<None, check_layer_deps(ret[1], call.analysis)>>
              ELSE Append(ret, check_layer_deps(ret[1], call.analysis))
    /\ UNCHANGED <<call, avars, vvars>>

NextLayer ==
    \/ Layer_new
    \/ Layer_resolve
    \/ Layer_check

SpecLayer == InitLayer /\ [][NextLayer]_vars

\* The (prefix, layer) pairs the configuration registers.
Registered ==
    UNION {{<<call.config.layers[i].packages[j], call.config.layers[i].name>> :
               j \in 1..Len(call.config.layers[i].packages)} :
              i \in 1..Len(call.config.layers)}

\* The name is the prefix, or goes on after it with a `.`.
MatchesAt(name, prefix) ==
    \/ name = prefix
    \/ /\ Len(name) > Len(prefix)
       /\ SubSeq(name, 1, Len(prefix)) = prefix
       /\ name[Len(prefix) + 1] = "."

StrictPrefix(p1, p2) == Len(p1) < Len(p2) /\ SubSeq(p2, 1, Len(p1)) = p1

Matching(name) == {e \in Registered : MatchesAt(name, e[1])}

\* The layers of the longest registered prefix the name matches.
LongestMatchLayers(name) ==
    {e[2] : e \in {e \in Matching(name) :
                      \A f \in Matching(name) : Len(f[1]) <= Len(e[1])}}

PackageResolved == call.fn = "ArchRuleEngine::check" /\ Len(ret) >= 2 /\ call.analysis.package # None

PackageName == call.analysis.package[1].path

\* C18 as stated: whenever a registered prefix P1 is a strict prefix of a
\* registered prefix P2, a qualified name starting with P2 resolves to the
\* layer of P2.
C18_ResolvesToLayerOfLongerPrefix ==
    PackageResolved =>
        \A e1, e2 \in Registered :
            (StrictPrefix(e1[1], e2[1]) /\ MatchesAt(PackageName, e2[1]))
                => ret[2] = Some(e2[2])

\* C18: whenever a registered prefix P1 is a strict prefix of a registered
\* prefix P2, a qualified name that is P2 or goes on after P2 with a `.`
\* resolves to the layer of the longest registered prefix it matches, in
\* whatever order layers and prefixes were declared: to the layer of P2
\* unless a still longer registered prefix matches, and never through P1.
C18_ResolvesToLayerOfLongestPrefix ==
    PackageResolved =>
        \A e1, e2 \in Registered :
            (StrictPrefix(e1[1], e2[1]) /\ MatchesAt(PackageName, e2[1]))
                => /\ ret[2] # None
                   /\ LongestMatchLayers(PackageName) = {ret[2][1]}
                   /\ (\A f \in Matching(PackageName) : Len(f[1]) <= Len(e2[1]))
                         => ret[2] = Some(e2[2])

\* `a` of layer domain was declared before `a.b` of layer infra, and `a.b.b`
\* resolved to infra.
C18_Witness ==
    /\ PackageResolved
    /\ call.config.layers[1] = LayerDef("domain", << <<"a">> >>)
    /\ call.config.layers[2] = LayerDef("infra", << <<"a", ".", "b">> >>)
    /\ PackageName = <<"a", ".", "b", ".", "b">>
    /\ ret[2] = Some("infra")

\* C19: a qualified name resolves through a registered prefix P only if it
\* equals P or starts with P followed by `.`, and a name that no registered
\* prefix matches in this way resolves to no layer.
C19_NoFalsePrefixMatch ==
    PackageResolved =>
        /\ ret[2] # None => \E e \in Matching(PackageName) : e[2] = ret[2][1]
        /\ Matching(PackageName) = {} => ret[2] = None

\* `a.bb` did not resolve to the layer of `a.b`, the only registered prefix.
C19_Witness ==
    /\ PackageResolved
    /\ Registered = {<< <<"a", ".", "b">>, "infra" >>}
    /\ PackageName = <<"a", ".", "b", "b">>
    /\ ret[2] = None

LayerFindings == ret[3]

LayerOfName(name) ==
    IF LongestMatchLayers(name) = {} THEN None
    ELSE Some(CHOOSE l \in LongestMatchLayers(name) : TRUE)

AllowList(F) ==
    IF F \in DOMAIN call.config.dependencies
    THEN {call.config.dependencies[F][a] : a \in 1..Len(call.config.dependencies[F])}
    ELSE {}

\* The import resolves to a layer other than the file's that the file's
\* layer may not depend on.
ForbiddenImport(imp) ==
    /\ call.analysis.package # None
    /\ LET F == LayerOfName(PackageName)
           T == LayerOfName(imp.path)
       IN  /\ F # None
           /\ T # None
           /\ T # F
           /\ T[1] \notin AllowList(F[1])

\* C20: the layer engine emits a LAYER001 finding of severity Error at an
\* import's line iff the file's package resolves to a layer F and the import
\* resolves to a layer T other than F that is not in the allow-list of F; it
\* emits one finding per such import and nothing for a same-layer import, an
\* import of no layer, or a file with no package or an unresolvable one.
C20_LayerDependencyFindings ==
    (call.fn = "ArchRuleEngine::check" /\ Len(ret) = 3) =>
        LET imports == call.analysis.imports
            AtImport(i) == {j \in 1..Len(LayerFindings) :
                               /\ LayerFindings[j].code = LAYER_CODE
                               /\ LayerFindings[j].severity = "Error"
                               /\ LayerFindings[j].line = imports[i].line}
        IN  /\ \A i \in 1..Len(imports) :
                  /\ AtImport(i) # {} <=> ForbiddenImport(imports[i])
                  /\ Cardinality(AtImport(i)) <= 1
            /\ \A j \in 1..Len(LayerFindings) : \E i \in 1..Len(imports) : j \in AtImport(i)

\* Of two imports of a domain file, the one into infra was flagged and the
\* one into domain was not.
C20_Witness ==
    /\ call.fn = "ArchRuleEngine::check"
    /\ Len(ret) = 3
    /\ ret[2] = Some("domain")
    /\ Len(call.analysis.imports) = 2
    /\ LayerOfName(call.analysis.imports[1].path) = Some("infra")
    /\ LayerOfName(call.analysis.imports[2].path) = Some("domain")
    /\ Len(LayerFindings) = 1
    /\ LayerFindings[1].line = call.analysis.imports[1].line

-----------------------------------------------------------------------------
(* ArchConfig::validate (arch-lint-ts) *)

Constraint(in_layers) == [kind |-> "no-import-pattern", in_layers |-> in_layers]

Validation(message) == [variant |-> "Validation", message |-> message]

layer_names(cfg) == {cfg.layers[i].name : i \in 1..Len(cfg.layers)}

RECURSIVE first_unknown(_, _, _)
\* The first name of the list that is no layer name, if any.
first_unknown(list, names, i) ==
    IF i > Len(list) THEN None
    ELSE IF list[i] \notin names THEN Some(list[i])
    ELSE first_unknown(list, names, i + 1)

RECURSIVE validate_dependencies(_, _, _)
\* The loop over the dependencies map, in the order the map iterates; order
\* is that iteration order of the keys.
validate_dependencies(cfg, order, k) ==
    IF k > Len(order) THEN None
    ELSE LET layer == order[k]
             deps == cfg.dependencies[layer]
             dep == first_unknown(deps, layer_names(cfg), 1)
         IN  IF layer \notin layer_names(cfg)
             THEN Some(<<"dependencies", layer, "unknown layer">>)
             ELSE IF dep # None
             THEN Some(<<"dependencies", layer, "unknown dep", dep[1]>>)
             ELSE IF \E j \in 1..Len(deps) : deps[j] = layer
             THEN Some(<<"dependencies", layer, "self-dependency">>)
             ELSE validate_dependencies(cfg, order, k + 1)

RECURSIVE validate_constraints(_, _)
validate_constraints(cfg, i) ==
    IF i > Len(cfg.constraints) THEN None
    ELSE LET l == first_unknown(cfg.constraints[i].in_layers, layer_names(cfg), 1)
         IN  IF l # None
             THEN Some(<<"constraints", i - 1, "unknown layer", l[1]>>)
             ELSE validate_constraints(cfg, i + 1)

RECURSIVE validate_layers(_, _)
validate_layers(cfg, i) ==
    IF i > Len(cfg.layers) THEN None
    ELSE IF cfg.layers[i].name \notin DOMAIN cfg.dependencies
    THEN Some(<<"layer", cfg.layers[i].name, "no entry in [dependencies]">>)
    ELSE validate_layers(cfg, i + 1)

ArchConfig_validate(cfg, order) ==
    LET e1 == validate_dependencies(cfg, order, 1)
        e2 == validate_constraints(cfg, 1)
        e3 == validate_layers(cfg, 1)
    IN  IF e1 # None THEN Err(Validation(e1[1]))
        ELSE IF e2 # None THEN Err(Validation(e2[1]))
        ELSE IF e3 # None THEN Err(Validation(e3[1]))
        ELSE Ok(<<>>)

-----------------------------------------------------------------------------
(* Specification SpecValidate: one call of ArchConfig::validate *)

MaxDeps == 2

ValidateNames == {"domain", "infra", "ghost"}

\* Lists of distinct names of at most n elements.
NameLists(n) ==
    {s \in {<<>>} \cup SeqsUpTo(ValidateNames, n) :
        \A i, j \in 1..Len(s) : s[i] = s[j] => i = j}

ValidateLayers ==
    { <<>>, <<LayerDef("domain", <<>>)>>, <<LayerDef("infra", <<>>)>>,
      <<LayerDef("domain", <<>>), LayerDef("infra", <<>>)>> }

ValidateDependencies ==
    UNION {[K -> NameLists(MaxDeps)] : K \in SUBSET ValidateNames}

ValidateConstraints == {<<>>} \cup {<<Constraint(l)>> : l \in NameLists(1)}

\* The orders in which a map with these keys may iterate.
IterationOrders(keys) ==
    {s \in {<<>>} \cup SeqsUpTo(keys, Cardinality(keys)) :
        /\ Len(s) = Cardinality(keys)
        /\ \A i, j \in 1..Len(s) : s[i] = s[j] => i = j}

InitValidate ==
    /\ call \in {[fn |-> "ArchConfig::validate",
                  config |-> [layers |-> l, dependencies |-> d, constraints |-> c]] :
                    l \in ValidateLayers, d \in ValidateDependencies,
                    c \in ValidateConstraints}
    /\ ret = <<>>
    /\ AnalyzerIdle
    /\ VisitIdle

Validate_call ==
    /\ call.fn = "ArchConfig::validate"
    /\ ret = <<>>
    /\ \E order \in IterationOrders(DOMAIN call.config.dependencies) :
          ret' = <<ArchConfig_validate(call.config, order)>>
    /\ UNCHANGED <<call, avars, vvars>>

NextValidate == Validate_call

SpecValidate == InitValidate /\ [][NextValidate]_vars

\* Every problem of the configuration, as validate would word it.
ValidationProblems ==
    LET cfg == call.config
        names == layer_names(cfg)
        deps == cfg.dependencies
    IN  {<<"dependencies", l, "unknown layer">> : l \in DOMAIN deps \ names}
        \cup UNION {{<<"dependencies", l, "unknown dep", deps[l][j]>> :
                        j \in {j \in 1..Len(deps[l]) : deps[l][j] \notin names}} :
                      l \in DOMAIN deps}
        \cup {<<"dependencies", l, "self-dependency">> :
                 l \in {l \in DOMAIN deps : \E j \in 1..Len(deps[l]) : deps[l][j] = l}}
        \cup UNION {{<<"constraints", i - 1, "unknown layer", cfg.constraints[i].in_layers[j]>> :
                        j \in {j \in 1..Len(cfg.constraints[i].in_layers) :
                                  cfg.constraints[i].in_layers[j] \notin names}} :
                      i \in 1..Len(cfg.constraints)}
        \cup {<<"layer", l, "no entry in [dependencies]">> : l \in names \ DOMAIN deps}

Validated == call.fn = "ArchConfig::validate" /\ Len(ret) = 1

\* validate fails iff the configuration has a problem.
ValidateFailsIffProblem ==
    Validated => (ret[1].ok = FALSE <=> ValidationProblems # {})

\* C21: validate fails iff a layer referenced in dependencies or in a
\* constraint's in_layers is not defined, a defined layer has no entry in
\* dependencies, or a layer lists itself as a dependency; and the error it
\* returns holds all such problems of the configuration.
C21_ValidateCollectsAllProblems ==
    Validated =>
        /\ ret[1].ok = FALSE <=> ValidationProblems # {}
        /\ ret[1].ok = FALSE => ValidationProblems \subseteq {ret[1].errors.message}

-----------------------------------------------------------------------------
(* tracing_env_init.rs: EnvInitVisitor *)

ENV_INIT_NAME == "tracing-env-init"
ENV_INIT_CODE == "AL007"

ENV_INIT_METHODS == {"try_from_default_env", "try_from_env"}
FALLBACK_METHODS == {"unwrap_or_else", "unwrap_or"}

TracingEnvInit(severity) == [kind |-> "tracing", severity |-> severity]

\* Expressions.  A path is the sequence of its segments; a string literal
\* has the line and column of its span.
ExprLit(line, col0) == [e |-> "lit", line |-> line, col0 |-> col0]
ExprCall(path, args) == [e |-> "call", path |-> path, args |-> args]
ExprMethodCall(receiver, method, args) ==
    [e |-> "method_call", receiver |-> receiver, method |-> method, args |-> args]
ExprClosure(body) == [e |-> "closure", body |-> body]

\* path_to_string(path).ends_with(m) for a method m of ENV_INIT_METHODS; no
\* segment of the model has one of them as a proper suffix.
is_env_init_call(expr) ==
    /\ expr.e = "call"
    /\ expr.path # <<>>
    /\ expr.path[Len(expr.path)] \in ENV_INIT_METHODS

\* path_str.ends_with("EnvFilter::new") || path_str == "new"
is_env_filter_new(path) ==
    \/ path = <<"new">>
    \/ /\ Len(path) >= 2
       /\ path[Len(path) - 1] = "EnvFilter"
       /\ path[Len(path)] = "new"

NewEnvInitVisitor ==
    [in_allowed_context |-> FALSE, in_env_fallback |-> FALSE, violations |-> <<>>]

RECURSIVE EnvInit_check_args(_, _, _, _, _)
\* The loop of visit_expr_call over the arguments of EnvFilter::new.
EnvInit_check_args(rule, ctx, v, args, i) ==
    IF i > Len(args) THEN v
    ELSE IF args[i].e # "lit" THEN EnvInit_check_args(rule, ctx, v, args, i + 1)
    ELSE LET allow_check == check_allow_with_reason(ctx.content, args[i].line, ENV_INIT_NAME)
             location == Location(ctx.relative_path, args[i].line, args[i].col0 + 1)
             next ==
                 IF allow_check.allowed
                 THEN IF requires_allow_reason(rule) /\ ~allow_check.reason
                      THEN Report(v, Violation(ENV_INIT_CODE, ENV_INIT_NAME, "Warning", location,
                                     <<"Allow directive for", ENV_INIT_NAME, MissingReason>>))
                      ELSE v
                 ELSE Report(v, Violation(ENV_INIT_CODE, ENV_INIT_NAME, rule.severity, location,
                                <<"Hardcoded log level in EnvFilter::new()">>))
         IN  EnvInit_check_args(rule, ctx, next, args, i + 1)

RECURSIVE EnvInit_visit_expr(_, _, _, _)
RECURSIVE EnvInit_visit_exprs(_, _, _, _, _)

\* A variant of visit_expr_method_call that leaves in_env_fallback set after
\* the fallback arguments.
EnvInit_visit_expr_method_call_sticky(rule, ctx, v, node) ==
    IF node.method \in FALLBACK_METHODS /\ is_env_init_call(node.receiver)
    THEN LET r == EnvInit_visit_expr(rule, ctx, v, node.receiver)
             in == [r EXCEPT !.in_env_fallback = TRUE]
         IN  EnvInit_visit_exprs(rule, ctx, in, node.args, 1)
    ELSE LET r == EnvInit_visit_expr(rule, ctx, v, node.receiver)
         IN  EnvInit_visit_exprs(rule, ctx, r, node.args, 1)

EnvInit_visit_expr_method_call(rule, ctx, v, node) ==
    IF node.method \in FALLBACK_METHODS /\ is_env_init_call(node.receiver)
    THEN LET r == EnvInit_visit_expr(rule, ctx, v, node.receiver)
             was_in_fallback == r.in_env_fallback
             in == [r EXCEPT !.in_env_fallback = TRUE]
             out == EnvInit_visit_exprs(rule, ctx, in, node.args, 1)
         IN  [out EXCEPT !.in_env_fallback = was_in_fallback]
    ELSE LET r == EnvInit_visit_expr(rule, ctx, v, node.receiver)
         IN  EnvInit_visit_exprs(rule, ctx, r, node.args, 1)

EnvInit_visit_expr_call(rule, ctx, v, node) ==
    IF v.in_allowed_context \/ v.in_env_fallback
    THEN EnvInit_visit_exprs(rule, ctx, v, node.args, 1)
    ELSE LET checked == IF is_env_filter_new(node.path)
                        THEN EnvInit_check_args(rule, ctx, v, node.args, 1)
                        ELSE v
         IN  EnvInit_visit_exprs(rule, ctx, checked, node.args, 1)

\* syn::visit::visit_expr with the two overrides of the visitor.
EnvInit_visit_expr(rule, ctx, v, expr) ==
    CASE expr.e = "call" -> EnvInit_visit_expr_call(rule, ctx, v, expr)
      [] expr.e = "method_call" -> EnvInit_visit_expr_method_call(rule, ctx, v, expr)
      [] expr.e = "closure" -> EnvInit_visit_expr(rule, ctx, v, expr.body)
      [] OTHER -> v

EnvInit_visit_exprs(rule, ctx, v, exprs, i) ==
    IF i > Len(exprs) THEN v
    ELSE EnvInit_visit_exprs(rule, ctx, EnvInit_visit_expr(rule, ctx, v, exprs[i]), exprs, i + 1)

\* visit_item_fn; stmts are the expressions of the function's block.
EnvInit_visit_item_fn(rule, ctx, v, node) ==
    LET was_allowed == v.in_allowed_context
        in == IF check_arch_lint_allow(node.attrs, ENV_INIT_NAME).allowed
              THEN [v EXCEPT !.in_allowed_context = TRUE]
              ELSE v
        out == EnvInit_visit_exprs(rule, ctx, in, node.stmts, 1)
    IN  [out EXCEPT !.in_allowed_context = was_allowed]

RECURSIVE EnvInit_visit_file(_, _, _, _, _)
EnvInit_visit_file(rule, ctx, v, items, i) ==
    IF i > Len(items) THEN v
    ELSE EnvInit_visit_file(rule, ctx, EnvInit_visit_item_fn(rule, ctx, v, items[i]), items, i + 1)

\* Rule::check of TracingEnvInit
EnvInit_check(rule, ctx, ast) ==
    EnvInit_visit_file(rule, ctx, NewEnvInitVisitor, ast, 1).violations

-----------------------------------------------------------------------------
(* Specification SpecEnvInit: TracingEnvInit::check over one file *)

MaxFns == 2

EnvFilterNew(line, col0) == ExprCall(<<"EnvFilter", "new">>, <<ExprLit(line, col0)>>)
TryFromDefaultEnv == ExprCall(<<"EnvFilter", "try_from_default_env">>, <<>>)
EnvFallback(method, line, col0) ==
    ExprMethodCall(TryFromDefaultEnv, method, <<EnvFilterNew(line, col0)>>)

\* The statements a function of the model may hold, on the given line.
EnvStatements(line) ==
    { \* EnvFilter::new("info")
      EnvFilterNew(line, 4),
      \* EnvFilter::try_from_default_env().unwrap_or_else(|_| EnvFilter::new("info"))
      ExprMethodCall(TryFromDefaultEnv, "unwrap_or_else",
                     <<ExprClosure(EnvFilterNew(line, 20))>>),
      \* EnvFilter::try_from_default_env().unwrap_or(EnvFilter::new("info"))
      EnvFallback("unwrap_or", line, 20),
      \* EnvFilter::try_from_env(EnvFilter::new("a")).unwrap_or(EnvFilter::new("b"))
      ExprMethodCall(ExprCall(<<"EnvFilter", "try_from_env">>, <<EnvFilterNew(line, 8)>>),
                     "unwrap_or", <<EnvFilterNew(line, 20)>>),
      \* load().unwrap_or(EnvFilter::new("info"))
      ExprMethodCall(ExprCall(<<"load">>, <<>>), "unwrap_or", <<EnvFilterNew(line, 20)>>),
      \* EnvFilter::try_from_default_env().map(|_| EnvFilter::new("info"))
      ExprMethodCall(TryFromDefaultEnv, "map", <<ExprClosure(EnvFilterNew(line, 20))>>),
      \* pair(EnvFilter::new("a"), <fallback>) and pair(<fallback>, EnvFilter::new("b"))
      ExprCall(<<"pair">>, <<EnvFilterNew(line, 4), EnvFallback("unwrap_or", line, 20)>>),
      ExprCall(<<"pair">>, <<EnvFallback("unwrap_or", line, 20), EnvFilterNew(line, 40)>>),
      \* <fallback>.with(EnvFilter::new("b"))
      ExprMethodCall(EnvFallback("unwrap_or_else", line, 20), "with",
                     <<EnvFilterNew(line, 40)>>),
      \* try_from_default_env().unwrap_or_else(|_| load().unwrap_or(EnvFilter::new("b")))
      ExprMethodCall(TryFromDefaultEnv, "unwrap_or_else",
                     <<ExprClosure(ExprMethodCall(ExprCall(<<"load">>, <<>>), "unwrap_or",
                                                  <<EnvFilterNew(line, 30)>>))>>) }

EnvAttrs == { <<>>, <<Attr("arch_lint::allow", {"tracing_env_init"}, FALSE)>> }

\* The line above a statement: code, or an allow comment with or without a
\* reason.
EnvLinesAbove ==
    { Line(TRUE, FALSE, {}, FALSE),
      Line(FALSE, TRUE, {ENV_INIT_NAME}, FALSE),
      Line(FALSE, TRUE, {ENV_INIT_NAME}, TRUE) }

\* Function i of a file has the line above its statement on line 2i - 1 and
\* its statement on line 2i.
EnvFns(i) ==
    {[attrs |-> a, above |-> l, stmts |-> <<s>>] :
        a \in EnvAttrs, l \in EnvLinesAbove, s \in EnvStatements(2 * i)}

EnvFiles ==
    UNION {{f \in [1..n -> UNION {EnvFns(i) : i \in 1..n}] : \A i \in 1..n : f[i] \in EnvFns(i)} :
              n \in 1..MaxFns}

RECURSIVE EnvContent(_, _)
EnvContent(file, i) ==
    IF i > Len(file) THEN <<>>
    ELSE <<file[i].above, Line(TRUE, FALSE, {}, FALSE)>> \o EnvContent(file, i + 1)

InitEnvInit ==
    /\ call \in {[fn |-> "TracingEnvInit::check", rule |-> TracingEnvInit(s), ast |-> f] :
                    s \in {"Warning", "Error"}, f \in EnvFiles}
    /\ ret = <<>>
    /\ AnalyzerIdle
    /\ VisitIdle

EnvInit_call ==
    /\ call.fn = "TracingEnvInit::check"
    /\ ret = <<>>
    /\ ret' = <<EnvInit_check(call.rule,
                              FileContext_new(Root \o <<"src", "main.rs">>,
                                              EnvContent(call.ast, 1), Root),
                              call.ast)>>
    /\ UNCHANGED <<call, avars, vvars>>

NextEnvInit == EnvInit_call

SpecEnvInit == InitEnvInit /\ [][NextEnvInit]_vars

RECURSIVE HardcodedSites(_, _)
\* The string-literal arguments of the EnvFilter::new calls of an expression,
\* each with whether it stands inside the argument of an unwrap_or or
\* unwrap_or_else whose receiver is an environment-initialisation call.
HardcodedSites(expr, inside) ==
    CASE expr.e = "call" ->
             (IF is_env_filter_new(expr.path)
              THEN {[line |-> expr.args[k].line, col0 |-> expr.args[k].col0, inside |-> inside] :
                       k \in {k \in 1..Len(expr.args) : expr.args[k].e = "lit"}}
              ELSE {})
             \cup UNION {HardcodedSites(expr.args[k], inside) : k \in 1..Len(expr.args)}
      [] expr.e = "method_call" ->
             HardcodedSites(expr.receiver, inside)
             \cup UNION {HardcodedSites(expr.args[k],
                             inside \/ (expr.method \in FALLBACK_METHODS
                                        /\ is_env_init_call(expr.receiver))) :
                           k \in 1..Len(expr.args)}
      [] expr.e = "closure" -> HardcodedSites(expr.body, inside)
      [] OTHER -> {}

EnvFindingsAt(site) ==
    {j \in 1..Len(ret[1]) : ret[1][j].line = site.line /\ ret[1][j].column = site.col0 + 1}

\* C22: a hardcoded EnvFilter::new call inside the argument of an unwrap_or
\* or unwrap_or_else whose receiver is an environment-initialisation call is
\* not flagged by AL007, while one standing outside such a fallback, before
\* or after it in the same file, in a function that is not allowed and with
\* no allow comment, is flagged exactly once.
C22_FallbackExemptStandaloneFlagged ==
    (call.fn = "TracingEnvInit::check" /\ Len(ret) = 1) =>
        \A i \in 1..Len(call.ast) :
            \A site \in HardcodedSites(call.ast[i].stmts[1], FALSE) :
                /\ site.inside => EnvFindingsAt(site) = {}
                /\ (~site.inside /\ call.ast[i].attrs = <<>> /\ call.ast[i].above.code)
                      => /\ Cardinality(EnvFindingsAt(site)) = 1
                         /\ \A j \in EnvFindingsAt(site) :
                               /\ ret[1][j].code = ENV_INIT_CODE
                               /\ ret[1][j].severity = call.rule.severity
                               /\ ~IsMeta(ret[1][j])

\* A file whose first function holds the fallback and whose second holds a
\* standalone EnvFilter::new: only the second was flagged.
C22_Witness ==
    /\ call.fn = "TracingEnvInit::check"
    /\ Len(ret) = 1
    /\ Len(call.ast) = 2
    /\ call.ast[1].stmts[1] = ExprMethodCall(TryFromDefaultEnv, "unwrap_or_else",
                                             <<ExprClosure(EnvFilterNew(2, 20))>>)
    /\ call.ast[2].stmts[1] = EnvFilterNew(4, 4)
    /\ Len(ret[1]) = 1
    /\ ret[1][1].line = 4

-----------------------------------------------------------------------------
(* The per-file loop of Analyzer::analyze (specification Spec) *)

FilesSorted ==
    \A i, j \in 1..Len(files) : i < j => cmp_path(files[i], files[j]) < 0

-----------------------------------------------------------------------------
(* AnalyzerBuilder::build: the exclude patterns of the analyzer *)

DefaultExcludes == <<"**/target/**", "**/vendor/**">>

\* AnalyzerConfig::default
AnalyzerConfig_default == [exclude |-> DefaultExcludes]

\* Config::default: every field by its Default implementation.
Config_default == [analyzer |-> AnalyzerConfig_default]

\* Config::parse.  toml.analyzer is the [analyzer] table, if the file has
\* one, and its exclude the value of the key, if the table has it; a
\* missing table is AnalyzerConfig::default(), a missing key the empty list.
Config_parse(toml) ==
    IF toml.analyzer = None THEN [analyzer |-> AnalyzerConfig_default]
    ELSE IF toml.analyzer[1].exclude = None THEN [analyzer |-> [exclude |-> <<>>]]
    ELSE [analyzer |-> [exclude |-> toml.analyzer[1].exclude[1]]]

\* The configuration the check command hands to the builder.
Config_of(source) ==
    IF source.kind = "Default" THEN Config_default ELSE Config_parse(source.toml)

\* build: builder is the AnalyzerBuilder with its exclude patterns and the
\* configuration set on it, if any.
AnalyzerBuilder_build(builder) ==
    LET merged == IF builder.config # None
                  THEN builder.exclude_patterns \o builder.config[1].analyzer.exclude
                  ELSE builder.exclude_patterns
    IN  [exclude_patterns |-> IF merged = <<>> THEN DefaultExcludes ELSE merged]

-----------------------------------------------------------------------------
(* Specification SpecBuild: one AnalyzerBuilder::build *)

MaxExcludes == 2

ExcludePatterns == {"**/gen/**", "**/tmp/**", "**/target/**"}

ExcludeLists == {<<>>} \cup SeqsUpTo(ExcludePatterns, MaxExcludes)

\* No configuration set on the builder, the built-in configuration, or a
\* configuration file.
ConfigSources ==
    {[kind |-> "Unset"], [kind |-> "Default"]}
    \cup {[kind |-> "File", toml |-> [analyzer |-> a]] :
             a \in {None} \cup {Some([exclude |-> e]) :
                                   e \in {None} \cup {Some(l) : l \in ExcludeLists}}}

InitBuild ==
    /\ call \in {[fn |-> "AnalyzerBuilder::build", exclude |-> x, source |-> s] :
                    x \in ExcludeLists, s \in ConfigSources}
    /\ ret = <<>>
    /\ AnalyzerIdle
    /\ VisitIdle

Build_call ==
    /\ call.fn = "AnalyzerBuilder::build"
    /\ ret = <<>>
    /\ ret' = <<AnalyzerBuilder_build(
                  [exclude_patterns |-> call.exclude,
                   config |-> IF call.source.kind = "Unset" THEN None
                              ELSE Some(Config_of(call.source))])>>
    /\ UNCHANGED <<call, avars, vvars>>

NextBuild == Build_call

SpecBuild == InitBuild /\ [][NextBuild]_vars

\* The exclude patterns given by the builder and by the configuration file.
GivenExcludes ==
    call.exclude \o
    (IF call.source.kind = "File" /\ call.source.toml.analyzer # None
        /\ call.source.toml.analyzer[1].exclude # None
     THEN call.source.toml.analyzer[1].exclude[1]
     ELSE <<>>)

\* C24: after build the default exclude patterns are in effect only when no
\* exclude pattern was given by the builder or by the configuration; when at
\* least one was given, the effective list is exactly the given patterns.
C24_DefaultExcludesOnlyWhenNoneGiven ==
    (call.fn = "AnalyzerBuilder::build" /\ Len(ret) = 1) =>
        ret[1].exclude_patterns =
            IF GivenExcludes = <<>> THEN DefaultExcludes ELSE GivenExcludes

-----------------------------------------------------------------------------
(* require_thiserror.rs: ThiserrorVisitor *)

THISERROR_NAME == "require-thiserror"
THISERROR_CODE == "AL005"

RequireThiserror(severity) ==
    [kind |-> "thiserror", severity |-> severity, patterns |-> <<"Error">>]

\* An attribute with the line of its opening bracket.
AttrAt(attr, line) ==
    [path |-> attr.path, args |-> attr.args, reason |-> attr.reason, line |-> line]

\* A struct or enum: its attributes and the span start of its identifier.
ItemType(kind, attrs, name, line, col0) ==
    [kind |-> kind, attrs |-> attrs, name |-> name, line |-> line, col0 |-> col0]

\* name.ends_with(pattern), for the names and patterns of the model.
ends_with(name, pattern) ==
    <<name, pattern>> \in {<<"MyError", "Error">>, <<"Error", "Error">>}

is_error_type(rule, name) ==
    \E i \in 1..Len(rule.patterns) : ends_with(name, rule.patterns[i])

\* A derive attribute whose text holds thiserror::Error or a bare Error.
has_thiserror_derive(attrs) ==
    \E i \in 1..Len(attrs) :
        attrs[i].path = "derive" /\ attrs[i].args \cap {"thiserror::Error", "Error"} # {}

\* The least of the lines, or otherwise when there is none.
min_or(lines, otherwise) ==
    IF lines = {} THEN otherwise ELSE CHOOSE l \in lines : \A m \in lines : l <= m

\* A variant of report_violation that scans from the identifier's line.
report_violation_at_ident(rule, ctx, violations, node) ==
    IF has_allow_attr(node.attrs, {"require_thiserror"}) THEN violations
    ELSE LET allow_check == check_allow_with_reason(ctx.content, node.line, THISERROR_NAME)
             location == Location(ctx.relative_path, node.line, node.col0 + 1)
         IN  IF allow_check.allowed
             THEN IF requires_allow_reason(rule) /\ ~allow_check.reason
                  THEN Append(violations,
                              Violation(THISERROR_CODE, THISERROR_NAME, "Warning", location,
                                        <<"Allow directive for", THISERROR_NAME, MissingReason>>))
                  ELSE violations
             ELSE Append(violations,
                         Violation(THISERROR_CODE, THISERROR_NAME, rule.severity, location,
                                   <<"Error type", node.name, "should derive thiserror::Error">>))

report_violation(rule, ctx, violations, node) ==
    IF has_allow_attr(node.attrs, {"require_thiserror"}) THEN violations
    ELSE LET earliest_line ==
                 min_or({node.attrs[i].line : i \in 1..Len(node.attrs)}, node.line)
             allow_check == check_allow_with_reason(ctx.content, earliest_line, THISERROR_NAME)
             location == Location(ctx.relative_path, node.line, node.col0 + 1)
         IN  IF allow_check.allowed
             THEN IF requires_allow_reason(rule) /\ ~allow_check.reason
                  THEN Append(violations,
                              Violation(THISERROR_CODE, THISERROR_NAME, "Warning", location,
                                        <<"Allow directive for", THISERROR_NAME, MissingReason>>))
                  ELSE violations
             ELSE Append(violations,
                         Violation(THISERROR_CODE, THISERROR_NAME, rule.severity, location,
                                   <<"Error type", node.name, "should derive thiserror::Error">>))

\* visit_item_struct and visit_item_enum
Thiserror_visit_item(rule, ctx, violations, node) ==
    IF is_error_type(rule, node.name) /\ ~has_thiserror_derive(node.attrs)
    THEN report_violation(rule, ctx, violations, node)
    ELSE violations

RECURSIVE Thiserror_visit_file(_, _, _, _, _)
Thiserror_visit_file(rule, ctx, violations, items, i) ==
    IF i > Len(items) THEN violations
    ELSE Thiserror_visit_file(rule, ctx,
                              Thiserror_visit_item(rule, ctx, violations, items[i]),
                              items, i + 1)

\* Rule::check of RequireThiserror
Thiserror_check(rule, ctx, ast) == Thiserror_visit_file(rule, ctx, <<>>, ast, 1)

-----------------------------------------------------------------------------
(* Specification SpecThiserror: RequireThiserror::check over one type *)

MaxAttrLines == 3

\* #[derive(Debug)], #[derive(Debug, thiserror::Error)],
\* #[allow(require_thiserror)] and a doc comment.
TypeAttrs ==
    { Attr("derive", {"Debug"}, FALSE), Attr("derive", {"Debug", "thiserror::Error"}, FALSE),
      Attr("allow", {"require_thiserror"}, FALSE), Attr("doc", {}, FALSE) }

TypeAttrStacks == {<<>>} \cup SeqsUpTo(TypeAttrs, MaxAttrLines)

\* A line that holds no attribute and no item: blank, or a comment with an
\* allow directive for this rule or another one.
CommentLines ==
    { Line(TRUE, FALSE, {}, FALSE),
      Line(FALSE, TRUE, {THISERROR_NAME}, FALSE),
      Line(FALSE, TRUE, {THISERROR_NAME}, TRUE),
      Line(FALSE, TRUE, {"other-rule"}, TRUE) }

\* The file: line 1, the attribute stack on lines 2 .. k + 1, line k + 2,
\* and the item with its identifier on line k + 3.
TypeItem(kind, stack, name) ==
    ItemType(kind, [i \in 1..Len(stack) |-> AttrAt(stack[i], i + 1)], name, Len(stack) + 3, 9)

TypeContent(above, stack, between) ==
    <<above>> \o [i \in 1..Len(stack) |-> Line(TRUE, FALSE, {}, FALSE)]
              \o <<between, Line(TRUE, FALSE, {}, FALSE)>>

InitThiserror ==
    /\ call \in {[fn |-> "RequireThiserror::check", rule |-> RequireThiserror(s),
                  above |-> a, between |-> b, stack |-> st,
                  ast |-> <<TypeItem(k, st, n)>>] :
                    s \in {"Warning", "Error"}, a \in CommentLines, b \in CommentLines,
                    st \in TypeAttrStacks, k \in {"struct", "enum"},
                    n \in {"MyError", "Config"}}
    /\ ret = <<>>
    /\ AnalyzerIdle
    /\ VisitIdle

Thiserror_call ==
    /\ call.fn = "RequireThiserror::check"
    /\ ret = <<>>
    /\ ret' = <<Thiserror_check(call.rule,
                                FileContext_new(Root \o <<"src", "error.rs">>,
                                                TypeContent(call.above, call.stack, call.between),
                                                Root),
                                call.ast)>>
    /\ UNCHANGED <<call, avars, vvars>>

NextThiserror == Thiserror_call

SpecThiserror == InitThiserror /\ [][NextThiserror]_vars

AllowsThiserror(line) ==
    ~line.code /\ line.has_dir /\ (THISERROR_NAME \in line.rules \/ "all" \in line.rules)

\* The type is reported: a finding other than the missing-reason one.
TypeReported == \E j \in 1..Len(ret[1]) : ~IsMeta(ret[1][j])

\* The type is an error type without the derive and without an allow
\* attribute.
OffendingType ==
    /\ call.ast[1].name = "MyError"
    /\ \A i \in 1..Len(call.stack) :
          call.stack[i] \in {Attr("derive", {"Debug"}, FALSE), Attr("doc", {}, FALSE)}

\* C25: an allow comment on the line immediately above an item's attribute
\* stack is honored by require-thiserror, however many attribute lines lie
\* between the comment and the identifier: the type is not reported.  The
\* scan is anchored at the earliest attribute line, not at the identifier:
\* a comment between the attributes and the item does not suppress the
\* finding of an offending type.
C25_AllowAboveAttributeStack ==
    (call.fn = "RequireThiserror::check" /\ Len(ret) = 1 /\ Len(call.stack) >= 1) =>
        /\ AllowsThiserror(call.above) => ~TypeReported
        /\ (OffendingType /\ ~AllowsThiserror(call.above)) => TypeReported

\* An offending enum under three attribute lines with the allow comment above
\* them was not reported.
C25_Witness ==
    /\ call.fn = "RequireThiserror::check"
    /\ Len(ret) = 1
    /\ Len(call.stack) = 3
    /\ OffendingType
    /\ AllowsThiserror(call.above)
    /\ call.between.code
    /\ ret[1] = <<>>

-----------------------------------------------------------------------------
(* commands/check.rs: the exit status of the check command *)

\* A variant of has_errors: LintResult::has_warnings.
has_warnings(lint_result) ==
    \E i \in 1..Len(lint_result.violations) :
        lint_result.violations[i].severity \in {"Warning", "Error"}

has_errors(lint_result) ==
    \E i \in 1..Len(lint_result.violations) : lint_result.violations[i].severity = "Error"

\* The part of run after the analyzer is built: analysis is what
\* Analyzer::analyze returned.  A run that returns Err leaves main with
\* status 1; process::exit(1) ends it with 1; Ok(()) with 0.
check_run(format, analysis) ==
    IF ~analysis.ok THEN [exit |-> 1, printed |-> FALSE]
    ELSE IF has_errors(analysis.value) THEN [exit |-> 1, printed |-> TRUE]
    ELSE [exit |-> 0, printed |-> TRUE]

-----------------------------------------------------------------------------
(* Specification SpecExit: the end of one run of the check command *)

MaxFindings == 3

ExitFindings ==
    {Violation(UNWRAP_CODE, UNWRAP_NAME, s, Location(<<"src", "lib.rs">>, 1, 1), <<>>) :
        s \in Severity}

ExitResults ==
    {[violations |-> v, files_checked |-> 1] :
        v \in {<<>>} \cup SeqsUpTo(ExitFindings, MaxFindings)}

InitExit ==
    /\ call \in {[fn |-> "check::run", format |-> f, analysis |-> a] :
                    f \in {"Text", "Json", "Compact"},
                    a \in {Ok(r) : r \in ExitResults} \cup {Err("Io"), Err("Parse")}}
    /\ ret = <<>>
    /\ AnalyzerIdle
    /\ VisitIdle

Exit_call ==
    /\ call.fn = "check::run"
    /\ ret = <<>>
    /\ ret' = <<check_run(call.format, call.analysis)>>
    /\ UNCHANGED <<call, avars, vvars>>

NextExit == Exit_call

SpecExit == InitExit /\ [][NextExit]_vars

\* C26: when the analysis has produced a Result, the check command ends with
\* status zero iff no finding of the Result has severity Error, and with a
\* nonzero status otherwise.
C26_ExitZeroIffNoError ==
    (call.fn = "check::run" /\ Len(ret) = 1 /\ call.analysis.ok) =>
        LET severities == {call.analysis.value.violations[i].severity :
                              i \in 1..Len(call.analysis.value.violations)}
        IN  /\ "Error" \notin severities => ret[1].exit = 0
            /\ "Error" \in severities => ret[1].exit # 0

\* A Result holding a Warning and an Info finding ended with status zero.
C26_Witness ==
    /\ call.fn = "check::run"
    /\ Len(ret) = 1
    /\ call.analysis.ok
    /\ Len(call.analysis.value.violations) = 2
    /\ call.analysis.value.violations[1].severity = "Warning"
    /\ call.analysis.value.violations[2].severity = "Info"
    /\ ret[1].exit = 0

-----------------------------------------------------------------------------
(* config_resolver.rs *)

PROJECT_CONFIG_NAMES == <<"arch-lint.toml", ".arch-lint.toml">>
GLOBAL_CONFIG_NAME == "config.toml"

Explicit(p) == [source |-> "Explicit", path |-> p]
Project(p) == [source |-> "Project", path |-> p]
Global(p) == [source |-> "Global", path |-> p]
ConfigSource_Default == [source |-> "Default"]

RECURSIVE resolve_project(_, _, _)
\* The loop over PROJECT_CONFIG_NAMES; exists is the set of existing paths.
resolve_project(project_dir, exists, i) ==
    IF i > Len(PROJECT_CONFIG_NAMES) THEN None
    ELSE LET candidate == project_dir \o <<PROJECT_CONFIG_NAMES[i]>>
         IN  IF candidate \in exists THEN Some(Project(candidate))
             ELSE resolve_project(project_dir, exists, i + 1)

resolve_inner(project_dir, explicit, global_dir, exists) ==
    IF explicit # None THEN Explicit(explicit[1])
    ELSE LET found == resolve_project(project_dir, exists, 1)
         IN  IF found # None THEN found[1]
             ELSE IF global_dir # None /\ (global_dir[1] \o <<GLOBAL_CONFIG_NAME>>) \in exists
             THEN Global(global_dir[1] \o <<GLOBAL_CONFIG_NAME>>)
             ELSE ConfigSource_Default

-----------------------------------------------------------------------------
(* Specification SpecResolve: one resolution of the configuration file *)

ProjectDir == <<"work", "proj">>
GlobalDir == <<"home", ".arch-lint">>

ExplicitPaths == { <<"work", "custom.toml">>, ProjectDir \o <<".arch-lint.toml">> }

\* The paths that may exist.
ConfigFiles ==
    ExplicitPaths
    \cup {ProjectDir \o <<PROJECT_CONFIG_NAMES[i]>> : i \in 1..Len(PROJECT_CONFIG_NAMES)}
    \cup {GlobalDir \o <<GLOBAL_CONFIG_NAME>>}

InitResolve ==
    /\ call \in {[fn |-> "resolve_inner", project_dir |-> ProjectDir, explicit |-> e,
                  global_dir |-> g, exists |-> x] :
                    e \in {None} \cup {Some(p) : p \in ExplicitPaths},
                    g \in {None, Some(GlobalDir)},
                    x \in SUBSET ConfigFiles}
    /\ ret = <<>>
    /\ AnalyzerIdle
    /\ VisitIdle

Resolve_call ==
    /\ call.fn = "resolve_inner"
    /\ ret = <<>>
    /\ ret' = <<resolve_inner(call.project_dir, call.explicit, call.global_dir, call.exists)>>
    /\ UNCHANGED <<call, avars, vvars>>

NextResolve == Resolve_call

SpecResolve == InitResolve /\ [][NextResolve]_vars

\* The candidates in priority order: the explicit path, <P>/arch-lint.toml,
\* <P>/.arch-lint.toml, the global configuration file.
Candidates ==
    (IF call.explicit # None THEN <<call.explicit[1]>> ELSE <<>>)
    \o [i \in 1..Len(PROJECT_CONFIG_NAMES) |-> call.project_dir \o <<PROJECT_CONFIG_NAMES[i]>>]
    \o (IF call.global_dir # None THEN <<call.global_dir[1] \o <<GLOBAL_CONFIG_NAME>>>> ELSE <<>>)

ExistingCandidates == {i \in 1..Len(Candidates) : Candidates[i] \in call.exists}

Resolved == call.fn = "resolve_inner" /\ Len(ret) = 1

\* Without an explicit path, the first existing candidate is returned.
FirstExistingWhenNotExplicit ==
    (Resolved /\ call.explicit = None) =>
        IF ExistingCandidates = {} THEN ret[1] = ConfigSource_Default
        ELSE LET first == CHOOSE i \in ExistingCandidates : \A j \in ExistingCandidates : i <= j
             IN  ret[1].source # "Default" /\ ret[1].path = Candidates[first]

\* C27: resolution returns the first existing file in the priority order
\* explicit path, <P>/arch-lint.toml, <P>/.arch-lint.toml, global file: a
\* lower-priority candidate only when no higher-priority one exists, and no
\* file when none of the candidates exists.
C27_FirstExistingCandidate ==
    Resolved =>
        IF ExistingCandidates = {} THEN ret[1] = ConfigSource_Default
        ELSE LET first == CHOOSE i \in ExistingCandidates : \A j \in ExistingCandidates : i <= j
             IN  ret[1].source # "Default" /\ ret[1].path = Candidates[first]

-----------------------------------------------------------------------------
(* Scoping of the visitor context flags (specification SpecVisit) *)

\* The last step left an item: v_last.node is the frame of that item, which
\* holds the flags saved when the item was entered.
LeftItem == v_last.t = "leave"

\* C28: when the traversal leaves a mod, fn or impl, the test-context and
\* allowed-context flags equal the values saved just before the item was
\* entered; outside every item both flags are clear; and so the unwrap and
\* panic visitors report a violating node that no comment covers whenever no
\* enclosing item carries an allow attribute, whatever items were entered and
\* left before it.
C28_FlagsStrictlyScoped ==
    /\ LeftItem =>
           /\ visitor.in_test_context = v_last.node.was_in_test
           /\ visitor.in_allowed_context = v_last.node.was_allowed
    /\ visitor.stack = <<>> =>
           ~visitor.in_test_context /\ ~visitor.in_allowed_context
    /\ ( /\ v_rule.kind \in {"unwrap", "panic"}
         /\ AtReportableNode
         /\ ~CoveringDirective(v_ctx.content, v_last.node.line, Rule_name(v_rule)).allowed )
           => NewFindings # <<>>

\* The panic visitor has just left an item carrying an allow attribute for
\* the rule, entered with the allowed flag clear, after visiting a node in it.
C28_Witness ==
    /\ LeftItem
    /\ v_rule.kind = "panic"
    /\ v_last.node.kind \in {"mod", "fn", "impl"}
    /\ CarriesAllow(v_rule, v_last.node)
    /\ ~v_last.node.was_allowed
    /\ ~visitor.in_allowed_context
    /\ v_nsites >= 1

-----------------------------------------------------------------------------
(* One finding per panic-family macro (specification SpecVisit) *)

\* The last step visited a panic-family macro that no-panic-in-lib reports
\* here: outside test items and items carrying an allow attribute, with no
\* allow comment on its line or the line above.
AtPanicMacro ==
    /\ v_rule.kind = "panic"
    /\ AtReportableNode
    /\ ~visitor.in_allowed_context
    /\ ~InTestItem(visitor.stack)
    /\ ~CoveringDirective(v_ctx.content, v_last.node.line, PANIC_NAME).allowed

\* A macro in statement position is visited through visit_macro alone and
\* adds exactly one finding.
StatementMacroReportedOnce ==
    (AtPanicMacro /\ v_last.node.pos = "stmt") => Len(NewFindings) = 1

\* C29: the visit of a panic-family macro outside test and allowed contexts
\* adds exactly one finding, in statement position and in expression
\* position alike.
C29_OneFindingPerPanicMacro ==
    AtPanicMacro => Len(NewFindings) = 1

-----------------------------------------------------------------------------
(* arch-lint-ts engine.rs: check_constraints, check_naming_rules and check *)

PATTERN_CODE == "PATTERN001"
PATTERN_NAME == "import-pattern"
NAMING_CODE == "NAMING001"
NAMING_NAME == "naming-rule"

\* config.rs Constraint with every field; a string is the sequence of its
\* characters, the message is kept whole.
NoImportPattern(pattern, in_layers, severity) ==
    [kind |-> "no-import-pattern", pattern |-> pattern, in_layers |-> in_layers,
     severity |-> severity, message |-> <<"forbidden import">>,
     import_matches |-> <<>>, source_must_match |-> <<>>, source_must_not_match |-> <<>>]

NamingRule(import_matches, source_must_match, source_must_not_match, in_layers, severity) ==
    [kind |-> "naming-rule", pattern |-> <<>>, in_layers |-> in_layers,
     severity |-> severity, message |-> <<"bad name">>,
     import_matches |-> import_matches, source_must_match |-> source_must_match,
     source_must_not_match |-> source_must_not_match]

\* str::contains: pat occurs in s as a substring.
str_contains(s, pat) ==
    /\ Len(pat) <= Len(s)
    /\ \E i \in 0..(Len(s) - Len(pat)) : SubSeq(s, i + 1, i + Len(pat)) = pat

in_layers_any(constraint, from_layer) ==
    \E l \in 1..Len(constraint.in_layers) : constraint.in_layers[l] = from_layer

\* for imp in &analysis.imports, of one no-import-pattern constraint
RECURSIVE pattern_each_import(_, _, _, _)
pattern_each_import(constraint, analysis, violations, i) ==
    IF i > Len(analysis.imports) THEN violations
    ELSE LET imp == analysis.imports[i]
             next ==
                 IF str_contains(imp.path, constraint.pattern)
                 THEN Append(violations,
                          Violation(PATTERN_CODE, PATTERN_NAME, constraint.severity,
                                    Location(analysis.file_path, imp.line, imp.column + 1),
                                    constraint.message))
                 ELSE violations
         IN  pattern_each_import(constraint, analysis, next, i + 1)

\* for constraint in &self.config.constraints
RECURSIVE pattern_each_constraint(_, _, _, _, _)
pattern_each_constraint(engine, analysis, from_layer, violations, c) ==
    IF c > Len(engine.config.constraints) THEN violations
    ELSE LET constraint == engine.config.constraints[c]
             next ==
                 IF constraint.kind # "no-import-pattern" THEN violations
                 ELSE IF ~in_layers_any(constraint, from_layer) THEN violations
                 ELSE pattern_each_import(constraint, analysis, violations, 1)
         IN  pattern_each_constraint(engine, analysis, from_layer, next, c + 1)

check_constraints(engine, analysis) ==
    IF analysis.package = None THEN <<>>
    ELSE LET from_layer == LayerResolver_resolve(engine.resolver, analysis.package[1].path, 1)
         IN  IF from_layer = None THEN <<>>
             ELSE pattern_each_constraint(engine, analysis, from_layer[1], <<>>, 1)

decl_any(analysis, part) ==
    \E d \in 1..Len(analysis.declarations) : str_contains(analysis.declarations[d].name, part)

\* for imp in &analysis.imports, of one naming-rule constraint: up to two
\* findings for an import.
RECURSIVE naming_each_import(_, _, _, _)
naming_each_import(constraint, analysis, violations, i) ==
    IF i > Len(analysis.imports) THEN violations
    ELSE LET imp == analysis.imports[i]
             v == Violation(NAMING_CODE, NAMING_NAME, constraint.severity,
                            Location(analysis.file_path, imp.line, imp.column + 1),
                            constraint.message)
             must == IF /\ constraint.source_must_match # <<>>
                        /\ ~decl_any(analysis, constraint.source_must_match)
                     THEN Append(violations, v) ELSE violations
             must_not == IF /\ constraint.source_must_not_match # <<>>
                            /\ decl_any(analysis, constraint.source_must_not_match)
                         THEN Append(must, v) ELSE must
         IN  IF ~str_contains(imp.path, constraint.import_matches)
             THEN naming_each_import(constraint, analysis, violations, i + 1)
             ELSE naming_each_import(constraint, analysis, must_not, i + 1)

RECURSIVE naming_each_constraint(_, _, _, _, _)
naming_each_constraint(engine, analysis, from_layer, violations, c) ==
    IF c > Len(engine.config.constraints) THEN violations
    ELSE LET constraint == engine.config.constraints[c]
             next ==
                 IF constraint.kind # "naming-rule" THEN violations
                 ELSE IF ~in_layers_any(constraint, from_layer) THEN violations
                 ELSE IF constraint.import_matches = <<>> THEN violations
                 ELSE naming_each_import(constraint, analysis, violations, 1)
         IN  naming_each_constraint(engine, analysis, from_layer, next, c + 1)

check_naming_rules(engine, analysis) ==
    IF analysis.package = None THEN <<>>
    ELSE LET from_layer == LayerResolver_resolve(engine.resolver, analysis.package[1].path, 1)
         IN  IF from_layer = None THEN <<>>
             ELSE naming_each_constraint(engine, analysis, from_layer[1], <<>>, 1)

ArchRuleEngine_check(engine, analysis) ==
    check_layer_deps(engine, analysis)
        \o check_constraints(engine, analysis)
        \o check_naming_rules(engine, analysis)

-----------------------------------------------------------------------------
(* arch-lint-cli commands/check_ts.rs: run *)

\* The comparator of run's sort: file, then line.
cmp_location_file_line(a, b) ==
    IF cmp_path(a.file, b.file) # 0 THEN cmp_path(a.file, b.file)
    ELSE cmp_int(a.line, b.line)

\* slice::sort_by is a stable sort: v goes after the elements not greater.
SortInsertFileLine(sorted, v) ==
    LET after == {i \in 1..Len(sorted) : cmp_location_file_line(sorted[i], v) > 0}
        at == IF after = {} THEN Len(sorted) + 1
              ELSE CHOOSE i \in after : \A j \in after : i <= j
    IN  SubSeq(sorted, 1, at - 1) \o <<v>> \o SubSeq(sorted, at, Len(sorted))

RECURSIVE sort_by_file_line(_, _, _)
sort_by_file_line(violations, sorted, i) ==
    IF i > Len(violations) THEN sorted
    ELSE sort_by_file_line(violations, SortInsertFileLine(sorted, violations[i]), i + 1)

-----------------------------------------------------------------------------
(* Specification SpecCheckTs: one run of the check command on the layer     *)
(* engine path, over the analyses of the discovered files.                  *)

\* domain owns the prefix `a`, infra the longer prefix `a.b`.
TsLayers ==
    <<LayerDef("domain", << <<"a">> >>), LayerDef("infra", << <<"a", ".", "b">> >>)>>

TsDependencies == [l \in {"domain", "infra"} |-> IF l = "infra" THEN <<"domain">> ELSE <<>>]

TsPattern == NoImportPattern(<<"b", ".", "b">>, <<"domain">>, "Warning")
TsNaming == NamingRule(<<"b">>, <<"a">>, <<"b">>, <<"domain">>, "Info")

TsConstraintLists == { <<>>, <<TsPattern>>, <<TsNaming>>, <<TsPattern, TsNaming>> }

TsConfigs ==
    {[layers |-> TsLayers, dependencies |-> TsDependencies, constraints |-> c] :
        c \in TsConstraintLists}

\* Where an import may start: (line, column).  Kotlin lets two imports
\* share a line, separated by `;`.
TsPositions == << <<2, 0>>, <<2, 12>>, <<3, 0>>, <<3, 12>> >>

TsImportNames == { <<"a", ".", "b", ".", "b">>, <<"a", ".", "a">> }

\* The imports of a file, in document order.
TsImportLists ==
    UNION {{[i \in 1..k |-> ImportInfo(TsPositions[at[i]][1], TsPositions[at[i]][2], f[i])] :
                at \in {a \in [1..k -> 1..Len(TsPositions)] :
                            \A i \in 1..(k - 1) : a[i] < a[i + 1]},
                f \in [1..k -> TsImportNames]} :
              k \in 0..MaxImports}

TsDeclarations == { << [name |-> <<"a">>] >>, << [name |-> <<"b">>] >> }

TsPackages == {None, Some([line |-> 1, path |-> <<"a", ".", "a">>])}

TsAnalyses(path) ==
    {[file_path |-> path, package |-> p, imports |-> i, declarations |-> d] :
        p \in TsPackages, i \in TsImportLists, d \in TsDeclarations}

\* discover_files ends with files.sort(): the files come in path order.
TsFileLists ==
    { <<>> }
    \cup {<<a>> : a \in TsAnalyses(<<"Api.kt">>) \cup TsAnalyses(<<"Db.kt">>)}
    \cup {<<a, b>> : a \in TsAnalyses(<<"Api.kt">>), b \in TsAnalyses(<<"Db.kt">>)}

InitCheckTs ==
    /\ call \in {[fn |-> "check_ts::run", config |-> c, files |-> fs] :
                    c \in TsConfigs, fs \in TsFileLists}
    /\ ret = <<>>
    /\ AnalyzerIdle
    /\ VisitIdle

\* load_ts_config, config.validate()?, ArchRuleEngine::new, LintResult::new;
\* a configuration that fails validation ends the run before any finding.
CheckTs_start ==
    /\ call.fn = "check_ts::run"
    /\ ret = <<>>
    /\ \E order \in IterationOrders(DOMAIN call.config.dependencies) :
          ret' = IF ArchConfig_validate(call.config, order).ok
                 THEN <<[violations |-> <<>>, files_checked |-> 0, reported |-> FALSE]>>
                 ELSE <<[violations |-> <<>>, files_checked |-> 0, reported |-> TRUE]>>
    /\ UNCHANGED <<call, avars, vvars>>

\* One turn of `for file_path in &files`.
CheckTs_file ==
    /\ call.fn = "check_ts::run"
    /\ Len(ret) = 1
    /\ ~ret[1].reported
    /\ ret[1].files_checked < Len(call.files)
    /\ LET engine == ArchRuleEngine_new(call.config)
           analysis == call.files[ret[1].files_checked + 1]
       IN  ret' = <<[ret[1] EXCEPT
                        !.violations = @ \o ArchRuleEngine_check(engine, analysis),
                        !.files_checked = @ + 1]>>
    /\ UNCHANGED <<call, avars, vvars>>

\* The sort after the loop, and the output.
CheckTs_report ==
    /\ call.fn = "check_ts::run"
    /\ Len(ret) = 1
    /\ ~ret[1].reported
    /\ ret[1].files_checked = Len(call.files)
    /\ ret' = <<[ret[1] EXCEPT
                    !.violations = sort_by_file_line(@, <<>>, 1),
                    !.reported = TRUE]>>
    /\ UNCHANGED <<call, avars, vvars>>

NextCheckTs ==
    \/ CheckTs_start
    \/ CheckTs_file
    \/ CheckTs_report

SpecCheckTs == InitCheckTs /\ [][NextCheckTs]_vars

\* The run has printed its findings.
TsReported == Len(ret) = 1 /\ ret[1].reported

\* The printed findings are in ascending order of (file, line).
ReportedSortedByFileLine ==
    TsReported =>
        \A i \in 1..(Len(ret[1].violations) - 1) :
            cmp_location_file_line(ret[1].violations[i], ret[1].violations[i + 1]) <= 0

\* C30: the findings the layer-engine run reports are in ascending order of
\* (file path, line, column), findings of different kinds on one line of
\* one file included.
C30_ReportedSortedByFileLineColumn ==
    TsReported =>
        \A i \in 1..(Len(ret[1].violations) - 1) :
            cmp_violation(ret[1].violations[i], ret[1].violations[i + 1]) <= 0

====
